---- MODULE Spec2Model ----
(***************************************************************************)
(* Seat reservation and booking engine of the book-backend repository.     *)
(*                                                                         *)
(* Every request handler is an async function; each `await` is a point at  *)
(* which other handlers (of this or of another server instance sharing the *)
(* key store and the database) may run.  A handler is modelled as a        *)
(* process whose pc names the awaited operation; one action performs that  *)
(* operation and the synchronous continuation up to the next await.        *)
(*                                                                         *)
(* Strings that the code splits on ':' are modelled by their sequence of   *)
(* ':'-separated parts, so that "seatlock:s1:A-1" is                       *)
(* <<"seatlock", "s1", "A-1">>.                                            *)
(***************************************************************************)
EXTENDS Integers, Sequences, FiniteSets, TLC

\* ----------------------------------------------------------------- bounds
\* number of requests a run may start
MaxRequests == 4
\* number of clock ticks a run may take
MaxTicks == 1
\* number of requests a run of SpecSettle may start
MaxSettleRequests == 4
\* number of lock-seats requests, then of createBooking requests, a run of SpecRate
\* may start
MaxLockAttempts == 22
MaxBookAttempts == 12
\* number of requests a run of SpecCache may start, and of Movie documents it may hold
MaxCacheRequests == 5
MaxMovies == 3
\* number of requests a run of SpecWindow may start, and of clock steps it may take
MaxWindowRequests == 4
MaxWindowSteps == 4
\* number of requests a run of SpecInvalidate and of SpecReads may start, and of
\* Show documents a run may hold
MaxInvalidateRequests == 3
MaxReadRequests == 3
MaxShows == 3
\* number of requests a run of SpecBody may start
MaxBodyRequests == 4
\* number of requests a run of SpecOverlap may start
MaxOverlapRequests == 3
\* number of requests a run of SpecSwap may start
MaxSwapRequests == 3
\* number of requests a run of SpecDegraded may start
MaxDegradedRequests == 4

\* ------------------------------------------------------ program constants
SEAT_LOCK_TTL_SECONDS == 5 * 60
LOCK_RATE_LIMIT_TTL == 60
LOCK_RATE_LIMIT_MAX == 20
BOOKING_RATE_LIMIT_TTL == 60
BOOKING_RATE_LIMIT_MAX == 10

\* the clock advances in steps of one lock TTL
TickSeconds == SEAT_LOCK_TTL_SECONDS

\* ------------------------------------------------------------ the inputs
Procs == {1, 2}
Users == {"u1", "u2"}
\* the authenticated user of each worker's requests (req.user.id)
UserOf(p) == IF p = 1 THEN "u1" ELSE "u2"

\* Show documents: the active shows s1 and s2, each with an explicit three-seat layout
ShowDocs == [s \in {"s1", "s2"} |->
                [isActive |-> TRUE, movieId |-> "m1", city |-> "Chennai", showTime |-> 1,
                 totalSeats |-> 3,
                 seatLayout |-> <<[row |-> "A", number |-> 1],
                                  [row |-> "A", number |-> 2],
                                  [row |-> "A", number |-> 3]>>]]
\* the show of the requests of Spec and SpecLock
RequestShows == {"s1"}
\* Movie documents at the start
MovieDocs == [m1 |-> [title |-> "t1", isActive |-> TRUE, releaseDate |-> 1]]

\* seat identifiers as the clients send them ("A-1"), as ':'-separated parts
SeatA1 == <<"A-1">>
SeatA2 == <<"A-2">>
SeatA3 == <<"A-3">>
\* the seats arrays of the request bodies
SeatArrays == {<<SeatA1>>, <<SeatA2>>, <<SeatA1, SeatA2>>}

\* null: what get returns for an absent key, what findById returns for no document
Null == [null |-> TRUE]
NoExpiry == -1
NoEvent == [type |-> "none"]
NoResp == [code |-> 0, msg |-> "none"]
\* getRedisClient() without REDIS_URL: the in-memory client, no network client
InMemoryOnly == [client |-> "memory", link |-> "none", parked |-> << >>]

VARIABLES
    store,      \* the key store: key |-> [value, expiresAt]
    now,        \* Date.now(), in seconds
    bookings,   \* the Booking collection, in insertion order (_id = index)
    payments,   \* the Payment collection, in insertion order
    req,        \* per worker: the request in flight and its local variables
    emitted,    \* the socket event published by the step just taken
    nreq,       \* number of requests started
    movies,     \* the Movie collection: _id |-> document
    shows,      \* the Show collection: _id |-> document
    backend     \* config/redis.js: the client the proxy delegates to (clientInternal),
                \* the connection of the network client, and the content of the store
                \* the proxy does not delegate to

vars == <<store, now, bookings, payments, req, emitted, nreq, movies, shows, backend>>

\* ------------------------------------------------------------- key store
\* src/config/redis.js: the operations of the client behind the proxy

\* the key is in the store and its expiry instant has not passed (get, l.15-21)
Live(st, k) ==
    /\ k \in DOMAIN st
    /\ ~(st[k].expiresAt # NoExpiry /\ now > st[k].expiresAt)

\* get(key): the value, or null for an absent or expired key
Get(st, k) == IF Live(st, k) THEN st[k].value ELSE Null

\* get(key) deletes a key it finds expired
AfterGet(st, k) ==
    IF k \in DOMAIN st /\ ~Live(st, k)
    THEN [x \in DOMAIN st \ {k} |-> st[x]]
    ELSE st

\* a set that drops the 'EX' mode: the key never expires
SetEx_NoExpiry(st, k, v, ttl) ==
    (k :> [value |-> v, expiresAt |-> NoExpiry]) @@ st

\* set(key, value, 'EX', ttlSeconds)
SetEx(st, k, v, ttl) ==
    (k :> [value |-> v, expiresAt |-> now + ttl]) @@ st

\* del(keys)
Del(st, ks) == [x \in DOMAIN st \ ks |-> st[x]]

\* startsWith on strings seen as ':'-separated parts: the prefix "a:b:" is <<"a","b","">>
StartsWith(k, prefix) ==
    /\ Len(k) >= Len(prefix)
    /\ \A n \in 1..(Len(prefix) - 1) : k[n] = prefix[n]
    /\ prefix[Len(prefix)] = "" \/ k[Len(prefix)] = prefix[Len(prefix)]

\* keys(pattern) with pattern = prefix + '*': no expiry check
Keys(st, prefix) == {k \in DOMAIN st : StartsWith(k, prefix)}

\* an incr that loses the expiry of the key
Incr_DropsExpiry(st, k) ==
    (k :> [value |-> (IF k \in DOMAIN st THEN st[k].value ELSE 0) + 1,
           expiresAt |-> NoExpiry]) @@ st

\* incr(key): the new count; the key keeps the expiry it had
IncrValue(st, k) == (IF k \in DOMAIN st THEN st[k].value ELSE 0) + 1
Incr(st, k) ==
    (k :> [value |-> IncrValue(st, k),
           expiresAt |-> IF k \in DOMAIN st THEN st[k].expiresAt ELSE NoExpiry]) @@ st

\* expire(key, ttlSeconds)
Expire(st, k, ttl) ==
    IF k \in DOMAIN st
    THEN [st EXCEPT ![k].expiresAt = now + ttl]
    ELSE st

\* the proxy that the routes hold has no eval method (redis.js l.105-146)
ProxyHasEval == FALSE

\* ------------------------------------------------------------------ keys
getSeatKey(showId, seatId) == <<"seatlock", showId>> \o seatId
\* key.split(':').slice(2).join(':')
SeatOfKey(k) == SubSeq(k, 3, Len(k))
lockRateKey(userId, showId) == <<"ratelimit", "lock", userId, showId>>
bookingRateKey(userId) == <<"ratelimit", "booking", userId>>
\* a pattern that matches the lock keys of every show
seatLockPattern_AllShows(showId) == <<"seatlock", "">>
seatLockPattern(showId) == <<"seatlock", showId, "">>

\* ------------------------------------------------------------- utilities
Range(s) == {s[n] : n \in 1..Len(s)}
RECURSIVE SelectSeqBy(_, _)
\* seats.filter((s) => S.has(s)), keeping order and repetitions
SelectSeqBy(s, S) ==
    IF s = <<>> THEN <<>>
    ELSE (IF Head(s) \in S THEN <<Head(s)>> ELSE <<>>) \o SelectSeqBy(Tail(s), S)

\* ------------------------------------------------------------- requests
Idle == [pc |-> "idle", op |-> "none", user |-> "none", show |-> "none",
         movie |-> "none", seats |-> <<>>, i |-> 0, acc |-> <<>>, at |-> 0,
         count |-> 0, bid |-> 0, status |-> "none", doc |-> Null,
         keys |-> {}, locked |-> {}, n |-> 0, resp |-> NoResp]

\* the answer is sent: the handler's other local variables are dead from here on
Respond(r, code, msg) ==
    [Idle EXCEPT !.pc = "done", !.op = r.op, !.user = r.user, !.show = r.show,
                 !.seats = r.seats, !.acc = r.acc, !.bid = r.bid, !.status = r.status,
                 !.locked = r.locked, !.n = r.n,
                 !.resp = [code |-> code, msg |-> msg]]

Init ==
    /\ store = << >>
    /\ now = 0
    /\ bookings = << >>
    /\ payments = << >>
    /\ req = [p \in Procs |-> Idle]
    /\ emitted = NoEvent
    /\ nreq = 0
    /\ movies = MovieDocs
    /\ shows = ShowDocs
    /\ backend = InMemoryOnly

\* ---------------------------------------------------------------- clock
\* time passes; the store's timers delete the keys whose expiry has passed
Elapse(seconds) ==
    /\ now' = now + seconds
    /\ store' = [k \in {x \in DOMAIN store :
                          store[x].expiresAt = NoExpiry \/ store[x].expiresAt >= now + seconds}
                 |-> store[k]]
    /\ emitted' = NoEvent
    /\ UNCHANGED <<bookings, payments, req, nreq, movies, shows, backend>>

Tick ==
    /\ now < MaxTicks * TickSeconds
    /\ Elapse(TickSeconds)

\* the timer set by set/expire fires at the key's expiry instant
TimerFire(k) ==
    /\ k \in DOMAIN store
    /\ store[k].expiresAt # NoExpiry
    /\ now >= store[k].expiresAt
    /\ store' = Del(store, {k})
    /\ emitted' = NoEvent
    /\ UNCHANGED <<now, bookings, payments, req, nreq, movies, shows, backend>>

\* ------------------------------------------- POST /:showId/lock-seats
\* the request of user userId arrives; an empty seats array is answered 400
LockBegin(p, userId, showId, seats) ==
    /\ req[p].pc \in {"idle", "done"}
    /\ nreq' = nreq + 1
    /\ LET r == [Idle EXCEPT !.op = "lock", !.user = userId, !.show = showId,
                             !.seats = seats]
       IN req' = [req EXCEPT ![p] =
                    IF Len(seats) = 0 THEN Respond(r, 400, "seatsRequired")
                    ELSE [r EXCEPT !.pc = "l_incr"]]
    /\ emitted' = NoEvent
    /\ UNCHANGED <<store, now, bookings, payments, movies, shows, backend>>

LockStart(p, showId, seats) ==
    nreq < MaxRequests /\ LockBegin(p, UserOf(p), showId, seats)

\* a limiter that rejects from the LOCK_RATE_LIMIT_MAX-th attempt on
LockAfterLimit_Inclusive(r) ==
    IF r.count >= LOCK_RATE_LIMIT_MAX THEN Respond(r, 429, "tooManyLocks")
    ELSE [r EXCEPT !.pc = "l_show", !.count = 0]

\* a limiter that answers as a conflict does
LockAfterLimit_Conflict(r) ==
    IF r.count > LOCK_RATE_LIMIT_MAX THEN Respond(r, 409, "tooManyLocks")
    ELSE [r EXCEPT !.pc = "l_show", !.count = 0]

\* what follows the rate-limit steps of lock-seats: 429, or on to the show lookup
LockAfterLimit(r) ==
    IF r.count > LOCK_RATE_LIMIT_MAX THEN Respond(r, 429, "tooManyLocks")
    ELSE [r EXCEPT !.pc = "l_show", !.count = 0]

\* count = await redis.incr(rateKey)
LockIncr(p) ==
    /\ req[p].pc = "l_incr"
    /\ LET k == lockRateKey(req[p].user, req[p].show)
           r == [req[p] EXCEPT !.count = IncrValue(store, k)]
       IN /\ store' = Incr(store, k)
          /\ req' = [req EXCEPT ![p] =
                       IF r.count = 1 THEN [r EXCEPT !.pc = "l_expire"]
                       ELSE LockAfterLimit(r)]
    /\ emitted' = NoEvent
    /\ UNCHANGED <<now, bookings, payments, nreq, movies, shows, backend>>

\* await redis.expire(rateKey, LOCK_RATE_LIMIT_TTL)
LockExpire(p) ==
    /\ req[p].pc = "l_expire"
    /\ store' = Expire(store, lockRateKey(req[p].user, req[p].show), LOCK_RATE_LIMIT_TTL)
    /\ req' = [req EXCEPT ![p] = LockAfterLimit(req[p])]
    /\ emitted' = NoEvent
    /\ UNCHANGED <<now, bookings, payments, nreq, movies, shows, backend>>

\* show = await Show.findById(showId); then the lock payload's timestamp is taken
LockShow(p) ==
    /\ req[p].pc = "l_show"
    /\ req' = [req EXCEPT ![p] =
                 IF req[p].show \notin DOMAIN shows \/ ~shows[req[p].show].isActive
                 THEN Respond(req[p], 404, "showNotFound")
                 ELSE [req[p] EXCEPT !.pc = "l_get", !.i = 1, !.at = now]]
    /\ emitted' = NoEvent
    /\ UNCHANGED <<store, now, bookings, payments, nreq, movies, shows, backend>>

\* the Lua script: the keys of KEYS that exist
LuaConflicts(st, ks) == SelectSeqBy(ks, {k \in Range(ks) : Live(st, k)})
\* the Lua script's effect on the store: all keys set when none exists
LuaStore(st, ks, payload) ==
    IF LuaConflicts(st, ks) # <<>> THEN st
    ELSE [k \in Range(ks) |-> [value |-> payload, expiresAt |-> now + SEAT_LOCK_TTL_SECONDS]] @@ st

\* the fallback check of one seat: a conflict when the key holds another user's lock
IsConflict(existingRaw, userId) == existingRaw # Null /\ existingRaw.userId # userId

\* the broadcast and the answer that end lock-seats
LockAnswer(r) ==
    IF r.acc # <<>> THEN Respond(r, 409, "lockedByOthers")
    ELSE Respond(r, 200, "locked")
seatsLocked(r) == [type |-> "seatsLocked", showId |-> r.show, seats |-> r.seats, userId |-> r.user]

\* the conflict check: redis.eval when the client has it (atomic path), else
\* existingRaw = await redis.get(key) for the next seat of the check loop
LockGet(p) ==
    /\ req[p].pc = "l_get"
    /\ LET r == req[p]
           keys == [n \in 1..Len(r.seats) |-> getSeatKey(r.show, r.seats[n])]
           payload == [userId |-> r.user, lockedAt |-> r.at]
       IN IF ProxyHasEval
          THEN LET conflictKeys == LuaConflicts(store, keys)
                   r2 == [r EXCEPT !.acc = [n \in 1..Len(conflictKeys) |-> SeatOfKey(conflictKeys[n])]]
               IN /\ store' = LuaStore(store, keys, payload)
                  /\ req' = [req EXCEPT ![p] = LockAnswer(r2)]
                  /\ emitted' = seatsLocked(r)
          ELSE LET seatId == r.seats[r.i]
                   key == getSeatKey(r.show, seatId)
                   r2 == [r EXCEPT !.acc = IF IsConflict(Get(store, key), r.user)
                                            THEN Append(r.acc, seatId) ELSE r.acc]
               IN /\ store' = AfterGet(store, key)
                  /\ IF r.i < Len(r.seats)
                     THEN /\ req' = [req EXCEPT ![p] = [r2 EXCEPT !.i = r.i + 1]]
                          /\ emitted' = NoEvent
                     ELSE IF r2.acc = <<>>
                     THEN /\ req' = [req EXCEPT ![p] = [r2 EXCEPT !.pc = "l_set", !.i = 1]]
                          /\ emitted' = NoEvent
                     ELSE /\ req' = [req EXCEPT ![p] = LockAnswer(r2)]
                          /\ emitted' = seatsLocked(r)
    /\ UNCHANGED <<now, bookings, payments, nreq, movies, shows, backend>>

\* await redis.set(key, payload, 'EX', SEAT_LOCK_TTL_SECONDS) for the next seat
LockSet(p) ==
    /\ req[p].pc = "l_set"
    /\ LET r == req[p]
           key == getSeatKey(r.show, r.seats[r.i])
       IN /\ store' = SetEx(store, key, [userId |-> r.user, lockedAt |-> r.at],
                            SEAT_LOCK_TTL_SECONDS)
          /\ IF r.i < Len(r.seats)
             THEN /\ req' = [req EXCEPT ![p] = [r EXCEPT !.i = r.i + 1]]
                  /\ emitted' = NoEvent
             ELSE /\ req' = [req EXCEPT ![p] = LockAnswer(r)]
                  /\ emitted' = seatsLocked(r)
    /\ UNCHANGED <<now, bookings, payments, nreq, movies, shows, backend>>

\* ------------------------------------------------------ Booking collection
\* a collection without the unique index
UniqueViolation_NoIndex(bks, showId, seats) == FALSE

\* an index on the seats array as one value: only an equal array is a duplicate
UniqueViolation_WholeArray(bks, showId, seats) ==
    \E n \in 1..Len(bks) :
        /\ bks[n].bookingStatus = "CONFIRMED"
        /\ bks[n].showId = showId
        /\ bks[n].seats = seats

\* a re-query that does not leave the cancelled bookings out
Occupied_IncludingCancelled(bks, showId, seats) ==
    UNION {Range(bks[n].seats) : n \in {m \in 1..Len(bks) :
               /\ bks[m].showId = showId
               /\ Range(bks[m].seats) \cap Range(seats) # {}}}

\* a unique index over all the documents, the cancelled ones included
UniqueViolation_AnyStatus(bks, showId, seats) ==
    \E n \in 1..Len(bks) :
        /\ bks[n].showId = showId
        /\ Range(bks[n].seats) \cap Range(seats) # {}

\* the partial unique index {showId: 1, seats: 1} over the documents whose
\* bookingStatus is CONFIRMED: an insert is a duplicate-key error (11000) when an
\* indexed document of the show has one of the new document's seats
UniqueViolation(bks, showId, seats) ==
    \E n \in 1..Len(bks) :
        /\ bks[n].bookingStatus = "CONFIRMED"
        /\ bks[n].showId = showId
        /\ Range(bks[n].seats) \cap Range(seats) # {}

\* Booking.find({showId, seats: {$in: seats}, bookingStatus: {$ne: 'CANCELLED'}}),
\* its seats collected in the set `occupied`
Occupied(bks, showId, seats) ==
    UNION {Range(bks[n].seats) : n \in {m \in 1..Len(bks) :
               /\ bks[m].showId = showId
               /\ bks[m].bookingStatus # "CANCELLED"
               /\ Range(bks[m].seats) \cap Range(seats) # {}}}

\* -------------------------------------------------------- POST /api/bookings
\* the request of user userId arrives; a body without showId, movieId or seats is
\* answered 400
BookBegin(p, userId, showId, movieId, seats) ==
    /\ req[p].pc \in {"idle", "done"}
    /\ nreq' = nreq + 1
    /\ LET r == [Idle EXCEPT !.op = "book", !.user = userId, !.show = showId,
                             !.movie = movieId, !.seats = seats]
       IN req' = [req EXCEPT ![p] =
                    IF showId = "" \/ movieId = "" \/ Len(seats) = 0
                    THEN Respond(r, 400, "fieldsRequired")
                    ELSE [r EXCEPT !.pc = "b_incr"]]
    /\ emitted' = NoEvent
    /\ UNCHANGED <<store, now, bookings, payments, movies, shows, backend>>

BookStart(p, showId, movieId, seats) ==
    nreq < MaxRequests /\ BookBegin(p, UserOf(p), showId, movieId, seats)

\* what follows the rate-limit steps of createBooking: 429, or on to the show lookup
BookAfterLimit(r) ==
    IF r.count > BOOKING_RATE_LIMIT_MAX THEN Respond(r, 429, "tooManyBookings")
    ELSE [r EXCEPT !.pc = "b_show", !.count = 0]

\* count = await redis.incr(rateKey)
BookIncr(p) ==
    /\ req[p].pc = "b_incr"
    /\ LET k == bookingRateKey(req[p].user)
           r == [req[p] EXCEPT !.count = IncrValue(store, k)]
       IN /\ store' = Incr(store, k)
          /\ req' = [req EXCEPT ![p] =
                       IF r.count = 1 THEN [r EXCEPT !.pc = "b_expire"]
                       ELSE BookAfterLimit(r)]
    /\ emitted' = NoEvent
    /\ UNCHANGED <<now, bookings, payments, nreq, movies, shows, backend>>

\* await redis.expire(rateKey, BOOKING_RATE_LIMIT_TTL)
BookExpire(p) ==
    /\ req[p].pc = "b_expire"
    /\ store' = Expire(store, bookingRateKey(req[p].user), BOOKING_RATE_LIMIT_TTL)
    /\ req' = [req EXCEPT ![p] = BookAfterLimit(req[p])]
    /\ emitted' = NoEvent
    /\ UNCHANGED <<now, bookings, payments, nreq, movies, shows, backend>>

\* show = await Show.findById(showId)
BookShow(p) ==
    /\ req[p].pc = "b_show"
    /\ req' = [req EXCEPT ![p] =
                 IF req[p].show \notin DOMAIN shows \/ ~shows[req[p].show].isActive
                 THEN Respond(req[p], 404, "showNotFound")
                 ELSE [req[p] EXCEPT !.pc = "b_movie"]]
    /\ emitted' = NoEvent
    /\ UNCHANGED <<store, now, bookings, payments, nreq, movies, shows, backend>>

\* movie = await Movie.findById(movieId)
BookMovie(p) ==
    /\ req[p].pc = "b_movie"
    /\ req' = [req EXCEPT ![p] =
                 IF req[p].movie \notin DOMAIN movies \/ ~movies[req[p].movie].isActive
                 THEN Respond(req[p], 404, "movieNotFound")
                 ELSE [req[p] EXCEPT !.pc = "b_get", !.i = 1]]
    /\ emitted' = NoEvent
    /\ UNCHANGED <<store, now, bookings, payments, nreq, movies, shows, backend>>

\* a validation that only asks whether the seat is locked, by anyone
IsInvalid_AnyHolder(raw, userId) == raw = Null

\* the lock validation of one seat: valid when the key holds this user's lock
IsInvalid(raw, userId) == raw = Null \/ raw.userId # userId

\* raw = await redis.get(key) for the next seat of the validation loop
BookGet(p) ==
    /\ req[p].pc = "b_get"
    /\ LET r == req[p]
           seatId == r.seats[r.i]
           key == getSeatKey(r.show, seatId)
           r2 == [r EXCEPT !.acc = IF IsInvalid(Get(store, key), r.user)
                                    THEN Append(r.acc, seatId) ELSE r.acc]
       IN /\ store' = AfterGet(store, key)
          /\ req' = [req EXCEPT ![p] =
                       IF r.i < Len(r.seats) THEN [r2 EXCEPT !.i = r.i + 1]
                       ELSE IF r2.acc # <<>> THEN Respond(r2, 409, "notLocked")
                       ELSE [r2 EXCEPT !.pc = "b_insert", !.i = 0]]
    /\ emitted' = NoEvent
    /\ UNCHANGED <<now, bookings, payments, nreq, movies, shows, backend>>

\* the document Booking.create inserts
NewBooking(r) ==
    [userId |-> r.user, showId |-> r.show, movieId |-> r.movie, seats |-> r.seats,
     bookingStatus |-> "CONFIRMED", paymentStatus |-> "PENDING", cancelledAt |-> NoExpiry]

\* booking = await Booking.create({...}): inserted, or rejected by the unique index
BookInsert(p) ==
    /\ req[p].pc = "b_insert"
    /\ LET r == req[p]
       IN IF UniqueViolation(bookings, r.show, r.seats)
          THEN /\ bookings' = bookings
               /\ req' = [req EXCEPT ![p] = [r EXCEPT !.pc = "b_requery"]]
          ELSE /\ bookings' = Append(bookings, NewBooking(r))
               /\ req' = [req EXCEPT ![p] =
                            [r EXCEPT !.pc = "b_del", !.i = 1, !.bid = Len(bookings) + 1]]
    /\ emitted' = NoEvent
    /\ UNCHANGED <<store, now, payments, nreq, movies, shows, backend>>

\* the duplicate-key handler: conflicting = await Booking.find(...); 409
BookRequery(p) ==
    /\ req[p].pc = "b_requery"
    /\ LET r == req[p]
           invalidSeats == SelectSeqBy(r.seats, Occupied(bookings, r.show, r.seats))
       IN req' = [req EXCEPT ![p] = Respond([r EXCEPT !.acc = invalidSeats], 409, "alreadyBooked")]
    /\ emitted' = NoEvent
    /\ UNCHANGED <<store, now, bookings, payments, nreq, movies, shows, backend>>

seatsBooked(r) == [type |-> "seatsBooked", showId |-> r.show, seats |-> r.seats, userId |-> "none"]

\* await redis.del(key) for the next committed seat; after the last, broadcast and 201
BookDel(p) ==
    /\ req[p].pc = "b_del"
    /\ LET r == req[p]
       IN /\ store' = Del(store, {getSeatKey(r.show, r.seats[r.i])})
          /\ IF r.i < Len(r.seats)
             THEN /\ req' = [req EXCEPT ![p] = [r EXCEPT !.i = r.i + 1]]
                  /\ emitted' = NoEvent
             ELSE /\ req' = [req EXCEPT ![p] = Respond(r, 201, "bookingCreated")]
                  /\ emitted' = seatsBooked(r)
    /\ UNCHANGED <<now, bookings, payments, nreq, movies, shows, backend>>

\* ------------------------------------------- PUT /api/bookings/:id/cancel
\* the request of user userId arrives
CancelBegin(p, userId, id) ==
    /\ req[p].pc \in {"idle", "done"}
    /\ nreq' = nreq + 1
    /\ req' = [req EXCEPT ![p] =
                 [Idle EXCEPT !.pc = "c_find", !.op = "cancel", !.user = userId, !.bid = id]]
    /\ emitted' = NoEvent
    /\ UNCHANGED <<store, now, bookings, payments, movies, shows, backend>>

CancelStart(p, id) ==
    nreq < MaxRequests /\ CancelBegin(p, UserOf(p), id)

\* booking = await Booking.findOne({_id: id, userId}); the checks; the document is
\* changed in memory (bookingStatus, cancelledAt) and save() is called
CancelFind(p) ==
    /\ req[p].pc = "c_find"
    /\ LET r == req[p]
           booking == IF r.bid \in 1..Len(bookings) /\ bookings[r.bid].userId = r.user
                      THEN bookings[r.bid] ELSE Null
       IN req' = [req EXCEPT ![p] =
                    IF booking = Null THEN Respond(r, 404, "bookingNotFound")
                    ELSE IF booking.bookingStatus = "CANCELLED"
                    THEN Respond(r, 400, "alreadyCancelled")
                    ELSE IF booking.paymentStatus = "SUCCESS"
                    THEN Respond(r, 400, "cannotCancelPaid")
                    ELSE [r EXCEPT !.pc = "c_save", !.doc = booking, !.at = now,
                                   !.show = booking.showId, !.seats = booking.seats]]
    /\ emitted' = NoEvent
    /\ UNCHANGED <<store, now, bookings, payments, nreq, movies, shows, backend>>

\* a cancellation that does not stamp cancelledAt
CancelSave_NoStamp(p) ==
    /\ req[p].pc = "c_save"
    /\ bookings' = [bookings EXCEPT ![req[p].bid].bookingStatus = "CANCELLED"]
    /\ req' = [req EXCEPT ![p] = [req[p] EXCEPT !.pc = "c_del", !.i = 1, !.doc = Null, !.at = 0]]
    /\ emitted' = NoEvent
    /\ UNCHANGED <<store, now, payments, nreq, movies, shows, backend>>

\* await booking.save(): the modified paths bookingStatus and cancelledAt are written
CancelSave(p) ==
    /\ req[p].pc = "c_save"
    /\ bookings' = [bookings EXCEPT ![req[p].bid].bookingStatus = "CANCELLED",
                                    ![req[p].bid].cancelledAt = req[p].at]
    /\ req' = [req EXCEPT ![p] = [req[p] EXCEPT !.pc = "c_del", !.i = 1, !.doc = Null, !.at = 0]]
    /\ emitted' = NoEvent
    /\ UNCHANGED <<store, now, payments, nreq, movies, shows, backend>>

seatsCleared(r) == [type |-> "seatsClearedAfterPayment", showId |-> r.show, seats |-> <<>>,
                    userId |-> "none"]

\* await redis.del(key) for the next seat of the booking; after the last, broadcast and 200
CancelDel(p) ==
    /\ req[p].pc = "c_del"
    /\ LET r == req[p]
       IN /\ store' = Del(store, {getSeatKey(r.show, r.seats[r.i])})
          /\ IF r.i < Len(r.seats)
             THEN /\ req' = [req EXCEPT ![p] = [r EXCEPT !.i = r.i + 1]]
                  /\ emitted' = NoEvent
             ELSE /\ req' = [req EXCEPT ![p] = Respond(r, 200, "bookingCancelled")]
                  /\ emitted' = seatsCleared(r)
    /\ UNCHANGED <<now, bookings, payments, nreq, movies, shows, backend>>

\* ------------------------------------------------- POST /api/payments/mock
\* the request of user userId arrives; a status other than SUCCESS or FAILED is
\* answered 400
PayBegin(p, userId, id, status) ==
    /\ req[p].pc \in {"idle", "done"}
    /\ nreq' = nreq + 1
    /\ LET r == [Idle EXCEPT !.op = "pay", !.user = userId, !.bid = id, !.status = status]
       IN req' = [req EXCEPT ![p] =
                    IF status \notin {"SUCCESS", "FAILED"} THEN Respond(r, 400, "statusRequired")
                    ELSE [r EXCEPT !.pc = "p_find"]]
    /\ emitted' = NoEvent
    /\ UNCHANGED <<store, now, bookings, payments, movies, shows, backend>>

PayStart(p, id, status) ==
    nreq < MaxRequests /\ PayBegin(p, UserOf(p), id, status)

\* a settlement that does not compare the booking's user with the requester
PayFind_NoOwnerCheck(p) ==
    /\ req[p].pc = "p_find"
    /\ LET r == req[p]
           booking == IF r.bid \in 1..Len(bookings) THEN bookings[r.bid] ELSE Null
       IN req' = [req EXCEPT ![p] =
                    IF booking = Null THEN Respond(r, 404, "bookingNotFound")
                    ELSE IF booking.paymentStatus = "SUCCESS" THEN Respond(r, 400, "alreadyPaid")
                    ELSE [r EXCEPT !.pc = "p_create", !.doc = booking, !.show = booking.showId]]
    /\ emitted' = NoEvent
    /\ UNCHANGED <<store, now, bookings, payments, nreq, movies, shows, backend>>

\* booking = await Booking.findById(bookingId); the checks
PayFind(p) ==
    /\ req[p].pc = "p_find"
    /\ LET r == req[p]
           booking == IF r.bid \in 1..Len(bookings) THEN bookings[r.bid] ELSE Null
       IN req' = [req EXCEPT ![p] =
                    IF booking = Null THEN Respond(r, 404, "bookingNotFound")
                    ELSE IF booking.userId # r.user THEN Respond(r, 403, "notOwner")
                    ELSE IF booking.paymentStatus = "SUCCESS" THEN Respond(r, 400, "alreadyPaid")
                    ELSE [r EXCEPT !.pc = "p_create", !.doc = booking, !.show = booking.showId]]
    /\ emitted' = NoEvent
    /\ UNCHANGED <<store, now, bookings, payments, nreq, movies, shows, backend>>

\* payment = await Payment.create({...}); then the document is changed in memory
PayCreate(p) ==
    /\ req[p].pc = "p_create"
    /\ payments' = Append(payments, [bookingId |-> req[p].bid, userId |-> req[p].user,
                                     paymentStatus |-> req[p].status])
    /\ req' = [req EXCEPT ![p] = [req[p] EXCEPT !.pc = "p_save"]]
    /\ emitted' = NoEvent
    /\ UNCHANGED <<store, now, bookings, nreq, movies, shows, backend>>

\* a save() that writes the whole document as it was read, with the new values
SavePayment_WholeDocument(bks, id, doc, status) ==
    [bks EXCEPT ![id] =
        [doc EXCEPT !.paymentStatus = status,
                    !.bookingStatus = IF status = "FAILED" THEN "CANCELLED"
                                      ELSE doc.bookingStatus]]

\* save() writes the paths whose value differs from the one that was read
SavePayment(bks, id, doc, status) ==
    LET b1 == IF doc.paymentStatus # status
              THEN [bks EXCEPT ![id].paymentStatus = status] ELSE bks
    IN IF status = "FAILED" /\ doc.bookingStatus # "CANCELLED"
       THEN [b1 EXCEPT ![id].bookingStatus = "CANCELLED"] ELSE b1

\* await booking.save(); a FAILED payment is answered 201 here
PaySave(p) ==
    /\ req[p].pc = "p_save"
    /\ LET r == req[p]
       IN /\ bookings' = SavePayment(bookings, r.bid, r.doc, r.status)
          /\ req' = [req EXCEPT ![p] =
                       IF r.status = "SUCCESS" THEN [r EXCEPT !.pc = "p_keys", !.doc = Null]
                       ELSE Respond(r, 201, "paymentProcessed")]
    /\ emitted' = NoEvent
    /\ UNCHANGED <<store, now, payments, nreq, movies, shows, backend>>

\* keys = await redis.keys(`seatlock:${showId}:*`); with no key, broadcast and 201
PayKeys(p) ==
    /\ req[p].pc = "p_keys"
    /\ LET r == req[p]
           keys == Keys(store, seatLockPattern(r.show))
       IN IF keys # {}
          THEN /\ req' = [req EXCEPT ![p] = [r EXCEPT !.pc = "p_del", !.keys = keys]]
               /\ emitted' = NoEvent
          ELSE /\ req' = [req EXCEPT ![p] = Respond(r, 201, "paymentProcessed")]
               /\ emitted' = seatsCleared(r)
    /\ UNCHANGED <<store, now, bookings, payments, nreq, movies, shows, backend>>

\* await redis.del(keys); broadcast and 201
PayDel(p) ==
    /\ req[p].pc = "p_del"
    /\ store' = Del(store, req[p].keys)
    /\ req' = [req EXCEPT ![p] = Respond(req[p], 201, "paymentProcessed")]
    /\ emitted' = seatsCleared(req[p])
    /\ UNCHANGED <<now, bookings, payments, nreq, movies, shows, backend>>

\* ------------------------------------------------- GET /:showId/seats
\* no auth middleware on this route: req.user is undefined
SeatsStart(p, showId) ==
    /\ req[p].pc \in {"idle", "done"}
    /\ nreq < MaxRequests
    /\ nreq' = nreq + 1
    /\ req' = [req EXCEPT ![p] = [Idle EXCEPT !.pc = "m_show", !.op = "seats", !.show = showId]]
    /\ emitted' = NoEvent
    /\ UNCHANGED <<store, now, bookings, payments, movies, shows, backend>>

\* seatId = `${seat.row}-${seat.number}`
SeatIdOf(seat) == <<seat.row \o "-" \o ToString(seat.number)>>

\* the demo layout of a show without seatLayout: rows A..E, seats 1..perRow each;
\* perRow = Math.min(totalSeats / 5, 12) || 10 is a fraction when 5 does not divide
\* totalSeats, and the loop n <= perRow then stops at its integer part
DemoLayout(totalSeats) ==
    LET q == totalSeats \div 5
        perRow == IF totalSeats = 0 THEN 10 ELSE IF q < 12 THEN q ELSE 12
    IN {<<row \o "-" \o ToString(n)>> : row \in {"A", "B", "C", "D", "E"}, n \in 1..perRow}

\* the seat identifiers of the show's seat map
SeatsOfShow(show) ==
    IF Len(show.seatLayout) # 0
    THEN {SeatIdOf(show.seatLayout[n]) : n \in 1..Len(show.seatLayout)}
    ELSE DemoLayout(show.totalSeats)

\* show = await Show.findById(showId)
SeatsShow(p) ==
    /\ req[p].pc = "m_show"
    /\ req' = [req EXCEPT ![p] =
                 IF req[p].show \notin DOMAIN shows \/ ~shows[req[p].show].isActive
                 THEN Respond(req[p], 404, "showNotFound")
                 ELSE [req[p] EXCEPT !.pc = "m_keys", !.doc = shows[req[p].show]]]
    /\ emitted' = NoEvent
    /\ UNCHANGED <<store, now, bookings, payments, nreq, movies, shows, backend>>

\* the seats of the seat map answered with isLocked: those with a lockedMap entry
LockedSeats(show, lockedMap) == {s \in SeatsOfShow(show) : s \in lockedMap}

\* keys = await redis.keys(`seatlock:${showId}:*`); with no key, the answer
SeatsKeys(p) ==
    /\ req[p].pc = "m_keys"
    /\ LET r == req[p]
           keys == Keys(store, seatLockPattern(r.show))
       IN req' = [req EXCEPT ![p] =
                    IF keys # {} THEN [r EXCEPT !.pc = "m_get", !.keys = keys]
                    ELSE Respond([r EXCEPT !.locked = LockedSeats(r.doc, {})],
                                 200, "seatMap")]
    /\ emitted' = NoEvent
    /\ UNCHANGED <<store, now, bookings, payments, nreq, movies, shows, backend>>

\* values = await Promise.all(keys.map((k) => redis.get(k))); lockedMap; the answer
SeatsGet(p) ==
    /\ req[p].pc = "m_get"
    /\ LET r == req[p]
           lockedMap == {SeatOfKey(k) : k \in {x \in r.keys : Get(store, x) # Null}}
       IN /\ store' = [k \in {x \in DOMAIN store : x \notin r.keys \/ Live(store, x)} |-> store[k]]
          /\ req' = [req EXCEPT ![p] =
                       Respond([r EXCEPT !.locked = LockedSeats(r.doc, lockedMap)],
                               200, "seatMap")]
    /\ emitted' = NoEvent
    /\ UNCHANGED <<now, bookings, payments, nreq, movies, shows, backend>>

Next ==
    \/ Tick
    \/ \E k \in DOMAIN store : TimerFire(k)
    \/ \E p \in Procs : \E s \in RequestShows, seats \in SeatArrays : LockStart(p, s, seats)
    \/ \E p \in Procs : LockIncr(p)
    \/ \E p \in Procs : LockExpire(p)
    \/ \E p \in Procs : LockShow(p)
    \/ \E p \in Procs : LockGet(p)
    \/ \E p \in Procs : LockSet(p)
    \/ \E p \in Procs : \E s \in RequestShows, m \in DOMAIN MovieDocs, seats \in SeatArrays :
            BookStart(p, s, m, seats)
    \/ \E p \in Procs : BookIncr(p)
    \/ \E p \in Procs : BookExpire(p)
    \/ \E p \in Procs : BookShow(p)
    \/ \E p \in Procs : BookMovie(p)
    \/ \E p \in Procs : BookGet(p)
    \/ \E p \in Procs : BookInsert(p)
    \/ \E p \in Procs : BookRequery(p)
    \/ \E p \in Procs : BookDel(p)
    \/ \E p \in Procs : \E id \in 1..Len(bookings) : CancelStart(p, id)
    \/ \E p \in Procs : CancelFind(p)
    \/ \E p \in Procs : CancelSave(p)
    \/ \E p \in Procs : CancelDel(p)
    \/ \E p \in Procs : \E id \in 1..Len(bookings), status \in {"SUCCESS", "FAILED"} :
            PayStart(p, id, status)
    \/ \E p \in Procs : PayFind(p)
    \/ \E p \in Procs : PayCreate(p)
    \/ \E p \in Procs : PaySave(p)
    \/ \E p \in Procs : PayKeys(p)
    \/ \E p \in Procs : PayDel(p)
    \/ \E p \in Procs : \E s \in RequestShows : SeatsStart(p, s)
    \/ \E p \in Procs : SeatsShow(p)
    \/ \E p \in Procs : SeatsKeys(p)
    \/ \E p \in Procs : SeatsGet(p)

Spec == Init /\ [][Next]_vars

\* lock-seats requests alone, all within one instant
NextLock ==
    \/ \E p \in Procs : \E s \in RequestShows, seats \in SeatArrays : LockStart(p, s, seats)
    \/ \E p \in Procs : LockIncr(p)
    \/ \E p \in Procs : LockExpire(p)
    \/ \E p \in Procs : LockShow(p)
    \/ \E p \in Procs : LockGet(p)
    \/ \E p \in Procs : LockSet(p)

SpecLock == Init /\ [][NextLock]_vars

\* ---------------------------------------------- settlement of one booking
\* u1 holds a CONFIRMED, PENDING booking of show s1 (locked and booked at second 30;
\* the rate-limit windows of those requests have expired); u2 holds a lock acquired
\* at second 30 on a seat of show s2 and, when the booking leaves A-2 free, on A-2
\* of show s1
SeedTime == 30
SeedLock(userId) ==
    [value |-> [userId |-> userId, lockedAt |-> SeedTime],
     expiresAt |-> SeedTime + SEAT_LOCK_TTL_SECONDS]
SeedBooking(seats) ==
    [userId |-> "u1", showId |-> "s1", movieId |-> "m1", seats |-> seats,
     bookingStatus |-> "CONFIRMED", paymentStatus |-> "PENDING", cancelledAt |-> NoExpiry]
InitSettle ==
    /\ now = SeedTime + LOCK_RATE_LIMIT_TTL + 10
    /\ \E seats \in {<<SeatA1>>, <<SeatA1, SeatA2>>} :
          /\ bookings = <<SeedBooking(seats)>>
          /\ store = IF seats = <<SeatA1>>
                     THEN (getSeatKey("s1", SeatA2) :> SeedLock("u2"))
                          @@ (getSeatKey("s2", SeatA1) :> SeedLock("u2"))
                     ELSE (getSeatKey("s2", SeatA1) :> SeedLock("u2"))
    /\ payments = << >>
    /\ req = [p \in Procs |-> Idle]
    /\ emitted = NoEvent
    /\ nreq = 0
    /\ movies = MovieDocs
    /\ shows = ShowDocs
    /\ backend = InMemoryOnly

\* the requests of SpecSettle: u1 settles or cancels its booking from either worker
\* (a user's requests may run concurrently); u2 locks seat A-1, A-2 or the free seat A-3
\* of s1, or books A-2
SettlePay(p, status) == nreq < MaxSettleRequests /\ PayBegin(p, "u1", 1, status)
SettleCancel(p) == nreq < MaxSettleRequests /\ CancelBegin(p, "u1", 1)
SettleLock(seats) == nreq < MaxSettleRequests /\ LockBegin(2, "u2", "s1", seats)
SettleBook == nreq < MaxSettleRequests /\ BookBegin(2, "u2", "s1", "m1", <<SeatA2>>)

NextSettle ==
    \/ \E p \in Procs : \E status \in {"SUCCESS", "FAILED"} : SettlePay(p, status)
    \/ \E p \in Procs : SettleCancel(p)
    \/ \E seats \in {<<SeatA1>>, <<SeatA2>>, <<SeatA3>>} : SettleLock(seats)
    \/ SettleBook
    \/ \E p \in Procs : PayFind(p)
    \/ \E p \in Procs : PayCreate(p)
    \/ \E p \in Procs : PaySave(p)
    \/ \E p \in Procs : PayKeys(p)
    \/ \E p \in Procs : PayDel(p)
    \/ \E p \in Procs : CancelFind(p)
    \/ \E p \in Procs : CancelSave(p)
    \/ \E p \in Procs : CancelDel(p)
    \/ \E p \in Procs : LockIncr(p)
    \/ \E p \in Procs : LockExpire(p)
    \/ \E p \in Procs : LockShow(p)
    \/ \E p \in Procs : LockGet(p)
    \/ \E p \in Procs : LockSet(p)
    \/ \E p \in Procs : BookIncr(p)
    \/ \E p \in Procs : BookExpire(p)
    \/ \E p \in Procs : BookShow(p)
    \/ \E p \in Procs : BookMovie(p)
    \/ \E p \in Procs : BookGet(p)
    \/ \E p \in Procs : BookInsert(p)
    \/ \E p \in Procs : BookRequery(p)
    \/ \E p \in Procs : BookDel(p)

SpecSettle == InitSettle /\ [][NextSettle]_vars

\* ------------------------------------------------------- the rate limiter
\* one user's attempts within one window, from either worker: first the lock-seats
\* attempts, then the createBooking attempts
RateLock(p, seats) ==
    nreq < MaxLockAttempts /\ LockBegin(p, "u1", "s1", seats)
RateBook(p) ==
    /\ nreq >= MaxLockAttempts
    /\ nreq < MaxLockAttempts + MaxBookAttempts
    /\ BookBegin(p, "u1", "s1", "m1", <<SeatA1>>)

NextRate ==
    \/ \E p \in Procs : \E seats \in {<<SeatA1>>, <<SeatA2>>} : RateLock(p, seats)
    \/ \E p \in Procs : RateBook(p)
    \/ \E p \in Procs : LockIncr(p)
    \/ \E p \in Procs : LockExpire(p)
    \/ \E p \in Procs : LockShow(p)
    \/ \E p \in Procs : LockGet(p)
    \/ \E p \in Procs : LockSet(p)
    \/ \E p \in Procs : BookIncr(p)
    \/ \E p \in Procs : BookExpire(p)
    \/ \E p \in Procs : BookShow(p)
    \/ \E p \in Procs : BookMovie(p)
    \/ \E p \in Procs : BookGet(p)
    \/ \E p \in Procs : BookInsert(p)
    \/ \E p \in Procs : BookRequery(p)
    \/ \E p \in Procs : BookDel(p)

SpecRate == Init /\ [][NextRate]_vars

\* ------------------------------------------------- a failing key store
\* a call of the key store rejects (the connection of the real client is lost): the
\* handler's catch answers 500
LockIncrThrows(p) ==
    /\ req[p].pc = "l_incr"
    /\ req' = [req EXCEPT ![p] = Respond(req[p], 500, "internalError")]
    /\ emitted' = NoEvent
    /\ UNCHANGED <<store, now, bookings, payments, nreq, movies, shows, backend>>

LockExpireThrows(p) ==
    /\ req[p].pc = "l_expire"
    /\ req' = [req EXCEPT ![p] = Respond(req[p], 500, "internalError")]
    /\ emitted' = NoEvent
    /\ UNCHANGED <<store, now, bookings, payments, nreq, movies, shows, backend>>

BookIncrThrows(p) ==
    /\ req[p].pc = "b_incr"
    /\ req' = [req EXCEPT ![p] = Respond(req[p], 500, "internalError")]
    /\ emitted' = NoEvent
    /\ UNCHANGED <<store, now, bookings, payments, nreq, movies, shows, backend>>

BookExpireThrows(p) ==
    /\ req[p].pc = "b_expire"
    /\ req' = [req EXCEPT ![p] = Respond(req[p], 500, "internalError")]
    /\ emitted' = NoEvent
    /\ UNCHANGED <<store, now, bookings, payments, nreq, movies, shows, backend>>

DegradedLock(p, seats) ==
    nreq < MaxDegradedRequests /\ LockBegin(p, UserOf(p), "s1", seats)
DegradedBook(p, seats) ==
    nreq < MaxDegradedRequests /\ BookBegin(p, UserOf(p), "s1", "m1", seats)

NextDegraded ==
    \/ \E p \in Procs : \E seats \in {<<SeatA1>>} : DegradedLock(p, seats)
    \/ \E p \in Procs : \E seats \in {<<SeatA1>>} : DegradedBook(p, seats)
    \/ \E p \in Procs : LockIncr(p)
    \/ \E p \in Procs : LockIncrThrows(p)
    \/ \E p \in Procs : LockExpire(p)
    \/ \E p \in Procs : LockExpireThrows(p)
    \/ \E p \in Procs : LockShow(p)
    \/ \E p \in Procs : LockGet(p)
    \/ \E p \in Procs : LockSet(p)
    \/ \E p \in Procs : BookIncr(p)
    \/ \E p \in Procs : BookIncrThrows(p)
    \/ \E p \in Procs : BookExpire(p)
    \/ \E p \in Procs : BookExpireThrows(p)
    \/ \E p \in Procs : BookShow(p)
    \/ \E p \in Procs : BookMovie(p)
    \/ \E p \in Procs : BookGet(p)
    \/ \E p \in Procs : BookInsert(p)
    \/ \E p \in Procs : BookRequery(p)
    \/ \E p \in Procs : BookDel(p)

SpecDegraded == Init /\ [][NextDegraded]_vars

\* ------------------------------------------------------ the movie list cache
\* src/routes/movie.routes.js, src/routes/admin.routes.js
MOVIES_CACHE_KEY == <<"movies", "all">>
MOVIES_TTL_SECONDS == 60
movieDetailKey(id) == <<"movies", id>>
\* the _id given to the n-th Movie document
MovieIds == <<"m1", "m2", "m3", "m4", "m5">>

\* a Movie document as Mongoose returns it: releaseDate is a Date
MovieDocument(ms, id) ==
    [_id |-> id, title |-> ms[id].title, isActive |-> ms[id].isActive,
     releaseDate |-> [date |-> ms[id].releaseDate]]

\* Movie.find({ isActive: true }).sort({ releaseDate: -1 }): the active documents,
\* latest release first; documents of one release date come in either order
ActiveMovies(ms) ==
    LET ids == {id \in DOMAIN ms : ms[id].isActive}
        n == Cardinality(ids)
    IN { [i \in 1..n |-> MovieDocument(ms, f[i])] :
           f \in {g \in [1..n -> ids] :
                    /\ \A i, j \in 1..n : i # j => g[i] # g[j]
                    /\ \A i \in 1..n, j \in 1..n :
                          i < j => ms[g[i]].releaseDate >= ms[g[j]].releaseDate} }

\* JSON of one document: a Date becomes its ISO string; a string stays one
DateToJSON(v) == IF "date" \in DOMAIN v THEN [iso |-> v.date] ELSE v
ToJSON(d) ==
    [f \in DOMAIN d |-> IF f \in {"releaseDate", "showTime"} THEN DateToJSON(d[f]) ELSE d[f]]
\* JSON.stringify(list), JSON.parse(text): the dates do not come back
JSONStringify(list) == [json |-> [i \in 1..Len(list) |-> ToJSON(list[i])]]
JSONParse(text) == text.json
\* the data of res.json({ data })
ResJson(list) == [i \in 1..Len(list) |-> ToJSON(list[i])]

\* an invalidation that leaves the list where it is
InvalidateList_Skipped(st) == st
\* redis.del(MOVIES_CACHE_KEY)
InvalidateList(st) == Del(st, {MOVIES_CACHE_KEY})

NoneInFlight == \A q \in Procs : req[q].pc \in {"idle", "done"}

\* GET /api/movies arrives
ListEnter(p) ==
    /\ req[p].pc \in {"idle", "done"}
    /\ nreq' = nreq + 1
    /\ req' = [req EXCEPT ![p] = [Idle EXCEPT !.op = "movies", !.pc = "ml_get",
                                              !.n = nreq + 1]]
    /\ emitted' = NoEvent
    /\ UNCHANGED <<store, now, bookings, payments, movies, shows, backend>>

\* it arrives while no other request is in flight
ListArrive(p) == NoneInFlight /\ ListEnter(p)

ListBegin(p) == nreq < MaxCacheRequests /\ ListArrive(p)

\* cached = await redis.get(MOVIES_CACHE_KEY): a hit is answered from the cache
ListGet(p) ==
    /\ req[p].pc = "ml_get"
    /\ LET cached == Get(store, MOVIES_CACHE_KEY)
       IN req' = [req EXCEPT ![p] =
                    IF cached # Null
                    THEN Respond([req[p] EXCEPT !.acc = ResJson(JSONParse(cached))],
                                 200, "fromCache")
                    ELSE [req[p] EXCEPT !.pc = "ml_find"]]
    /\ store' = AfterGet(store, MOVIES_CACHE_KEY)
    /\ emitted' = NoEvent
    /\ UNCHANGED <<now, bookings, payments, nreq, movies, shows, backend>>

\* movies = await Movie.find({ isActive: true }).sort({ releaseDate: -1 })
ListFind(p) ==
    /\ req[p].pc = "ml_find"
    /\ \E list \in ActiveMovies(movies) :
          req' = [req EXCEPT ![p] = [req[p] EXCEPT !.pc = "ml_set", !.acc = list]]
    /\ emitted' = NoEvent
    /\ UNCHANGED <<store, now, bookings, payments, nreq, movies, shows, backend>>

\* await redis.set(MOVIES_CACHE_KEY, JSON.stringify(movies), 'EX', MOVIES_TTL_SECONDS);
\* res.json({ fromCache: false, data: movies })
ListSet(p) ==
    /\ req[p].pc = "ml_set"
    /\ store' = SetEx(store, MOVIES_CACHE_KEY, JSONStringify(req[p].acc),
                      MOVIES_TTL_SECONDS)
    /\ req' = [req EXCEPT ![p] =
                 Respond([req[p] EXCEPT !.acc = ResJson(req[p].acc)], 200, "fromStore")]
    /\ emitted' = NoEvent
    /\ UNCHANGED <<now, bookings, payments, nreq, movies, shows, backend>>

\* POST /api/movies of an administrator arrives; a missing title is answered 400
CreateEnter(p, title, releaseDate) ==
    /\ req[p].pc \in {"idle", "done"}
    /\ nreq' = nreq + 1
    /\ LET r == [Idle EXCEPT !.op = "createMovie", !.status = title,
                             !.at = releaseDate, !.n = nreq + 1]
       IN req' = [req EXCEPT ![p] =
                    IF title = "" THEN Respond(r, 400, "titleRequired")
                    ELSE [r EXCEPT !.pc = "c_create"]]
    /\ emitted' = NoEvent
    /\ UNCHANGED <<store, now, bookings, payments, movies, shows, backend>>

CreateArrive(p, title, releaseDate) == NoneInFlight /\ CreateEnter(p, title, releaseDate)

CreateBegin(p, title, releaseDate) ==
    nreq < MaxCacheRequests /\ CreateArrive(p, title, releaseDate)

\* movie = await Movie.create({ title, releaseDate, ... }): isActive is true by default
CreateInsert(p) ==
    /\ req[p].pc = "c_create"
    /\ Cardinality(DOMAIN movies) < MaxMovies
    /\ LET id == MovieIds[Cardinality(DOMAIN movies) + 1]
       IN /\ movies' = (id :> [title |-> req[p].status, isActive |-> TRUE,
                                releaseDate |-> req[p].at]) @@ movies
          /\ req' = [req EXCEPT ![p] = [req[p] EXCEPT !.pc = "c_del", !.movie = id]]
    /\ emitted' = NoEvent
    /\ UNCHANGED <<store, now, bookings, payments, nreq, shows, backend>>

\* await redis.del(MOVIES_CACHE_KEY)
CreateDelList(p) ==
    /\ req[p].pc = "c_del"
    /\ store' = InvalidateList(store)
    /\ req' = [req EXCEPT ![p] = [req[p] EXCEPT !.pc = "c_del2"]]
    /\ emitted' = NoEvent
    /\ UNCHANGED <<now, bookings, payments, nreq, movies, shows, backend>>

\* await redis.del(`movies:${movie._id}`); res.status(201)
CreateDelDetail(p) ==
    /\ req[p].pc = "c_del2"
    /\ store' = Del(store, {movieDetailKey(req[p].movie)})
    /\ req' = [req EXCEPT ![p] = Respond([req[p] EXCEPT !.acc = <<>>], 201, "movieCreated")]
    /\ emitted' = NoEvent
    /\ UNCHANGED <<now, bookings, payments, nreq, movies, shows, backend>>

\* DELETE /api/admin/movies/:id of an administrator arrives
DeactivateArrive(p, id) ==
    /\ NoneInFlight
    /\ nreq' = nreq + 1
    /\ req' = [req EXCEPT ![p] = [Idle EXCEPT !.op = "deactivateMovie", !.movie = id,
                                              !.pc = "d_update", !.n = nreq + 1]]
    /\ emitted' = NoEvent
    /\ UNCHANGED <<store, now, bookings, payments, movies, shows, backend>>

DeactivateBegin(p, id) == nreq < MaxCacheRequests /\ DeactivateArrive(p, id)

\* movie = await Movie.findByIdAndUpdate(id, { isActive: false }, { new: true })
DeactivateUpdate(p) ==
    /\ req[p].pc = "d_update"
    /\ IF req[p].movie \notin DOMAIN movies
       THEN /\ req' = [req EXCEPT ![p] = Respond(req[p], 404, "movieNotFound")]
            /\ UNCHANGED movies
       ELSE /\ movies' = [movies EXCEPT ![req[p].movie].isActive = FALSE]
            /\ req' = [req EXCEPT ![p] = [req[p] EXCEPT !.pc = "d_del"]]
    /\ emitted' = NoEvent
    /\ UNCHANGED <<store, now, bookings, payments, nreq, shows, backend>>

\* await redis.del('movies:all')
DeactivateDelList(p) ==
    /\ req[p].pc = "d_del"
    /\ store' = InvalidateList(store)
    /\ req' = [req EXCEPT ![p] = [req[p] EXCEPT !.pc = "d_del2"]]
    /\ emitted' = NoEvent
    /\ UNCHANGED <<now, bookings, payments, nreq, movies, shows, backend>>

\* await redis.del(`movies:${id}`); res.json
DeactivateDelDetail(p) ==
    /\ req[p].pc = "d_del2"
    /\ store' = Del(store, {movieDetailKey(req[p].movie)})
    /\ req' = [req EXCEPT ![p] = Respond(req[p], 200, "movieDeactivated")]
    /\ emitted' = NoEvent
    /\ UNCHANGED <<now, bookings, payments, nreq, movies, shows, backend>>

\* redis.get rejects or JSON.parse throws: the inner catch logs and the list is loaded
ListGetThrows(p) ==
    /\ req[p].pc = "ml_get"
    /\ req' = [req EXCEPT ![p] = [req[p] EXCEPT !.pc = "ml_find",
                                                !.status = "cacheReadFailed"]]
    /\ emitted' = NoEvent
    /\ UNCHANGED <<store, now, bookings, payments, nreq, movies, shows, backend>>

\* a cache write whose failure reaches the outer catch
ListSetThrows_Fails(p) ==
    /\ req[p].pc = "ml_set"
    /\ req' = [req EXCEPT ![p] = Respond(req[p], 500, "internalError")]
    /\ emitted' = NoEvent
    /\ UNCHANGED <<store, now, bookings, payments, nreq, movies, shows, backend>>

\* redis.set rejects: the inner catch logs and the loaded list is answered
ListSetThrows(p) ==
    /\ req[p].pc = "ml_set"
    /\ req' = [req EXCEPT ![p] =
                 Respond([req[p] EXCEPT !.acc = ResJson(req[p].acc),
                                        !.status = "cacheWriteFailed"], 200, "fromStore")]
    /\ emitted' = NoEvent
    /\ UNCHANGED <<store, now, bookings, payments, nreq, movies, shows, backend>>

\* GET /api/movies/:id arrives
DetailArrive(p, id) ==
    /\ NoneInFlight
    /\ nreq' = nreq + 1
    /\ req' = [req EXCEPT ![p] = [Idle EXCEPT !.op = "movie", !.movie = id,
                                              !.pc = "md_get", !.n = nreq + 1]]
    /\ emitted' = NoEvent
    /\ UNCHANGED <<store, now, bookings, payments, movies, shows, backend>>

\* cached = await redis.get(`movies:${id}`): a hit is answered from the cache
DetailGet(p) ==
    /\ req[p].pc = "md_get"
    /\ LET cached == Get(store, movieDetailKey(req[p].movie))
       IN req' = [req EXCEPT ![p] =
                    IF cached # Null
                    THEN Respond([req[p] EXCEPT !.acc = ResJson(JSONParse(cached))],
                                 200, "fromCache")
                    ELSE [req[p] EXCEPT !.pc = "md_find"]]
    /\ store' = AfterGet(store, movieDetailKey(req[p].movie))
    /\ emitted' = NoEvent
    /\ UNCHANGED <<now, bookings, payments, nreq, movies, shows, backend>>

DetailGetThrows(p) ==
    /\ req[p].pc = "md_get"
    /\ req' = [req EXCEPT ![p] = [req[p] EXCEPT !.pc = "md_find",
                                                !.status = "cacheReadFailed"]]
    /\ emitted' = NoEvent
    /\ UNCHANGED <<store, now, bookings, payments, nreq, movies, shows, backend>>

\* movie = await Movie.findById(id); a missing or inactive movie is answered 404
DetailFind(p) ==
    /\ req[p].pc = "md_find"
    /\ LET id == req[p].movie
       IN req' = [req EXCEPT ![p] =
                    IF id \notin DOMAIN movies \/ ~movies[id].isActive
                    THEN Respond(req[p], 404, "movieNotFound")
                    ELSE [req[p] EXCEPT !.pc = "md_set",
                                        !.acc = <<MovieDocument(movies, id)>>]]
    /\ emitted' = NoEvent
    /\ UNCHANGED <<store, now, bookings, payments, nreq, movies, shows, backend>>

\* await redis.set(cacheKey, JSON.stringify(movie), 'EX', MOVIES_TTL_SECONDS);
\* res.json({ fromCache: false, data: movie })
DetailSet(p) ==
    /\ req[p].pc = "md_set"
    /\ store' = SetEx(store, movieDetailKey(req[p].movie), JSONStringify(req[p].acc),
                      MOVIES_TTL_SECONDS)
    /\ req' = [req EXCEPT ![p] =
                 Respond([req[p] EXCEPT !.acc = ResJson(req[p].acc)], 200, "fromStore")]
    /\ emitted' = NoEvent
    /\ UNCHANGED <<now, bookings, payments, nreq, movies, shows, backend>>

DetailSetThrows(p) ==
    /\ req[p].pc = "md_set"
    /\ req' = [req EXCEPT ![p] =
                 Respond([req[p] EXCEPT !.acc = ResJson(req[p].acc),
                                        !.status = "cacheWriteFailed"], 200, "fromStore")]
    /\ emitted' = NoEvent
    /\ UNCHANGED <<store, now, bookings, payments, nreq, movies, shows, backend>>

\* PUT /api/admin/movies/:id of an administrator arrives with the fields to change
MovieUpdateEnter(p, id, updates) ==
    /\ req[p].pc \in {"idle", "done"}
    /\ nreq' = nreq + 1
    /\ req' = [req EXCEPT ![p] = [Idle EXCEPT !.op = "updateMovie", !.movie = id,
                                              !.doc = updates, !.pc = "mu_update",
                                              !.n = nreq + 1]]
    /\ emitted' = NoEvent
    /\ UNCHANGED <<store, now, bookings, payments, movies, shows, backend>>

MovieUpdateArrive(p, id, updates) == NoneInFlight /\ MovieUpdateEnter(p, id, updates)

\* findByIdAndUpdate(id, updates): the fields of updates replace the document's
Updated(doc, updates) ==
    [f \in DOMAIN doc |-> IF f \in DOMAIN updates THEN updates[f] ELSE doc[f]]

\* movie = await Movie.findByIdAndUpdate(id, updates, { new: true })
MovieUpdateApply(p) ==
    /\ req[p].pc = "mu_update"
    /\ IF req[p].movie \notin DOMAIN movies
       THEN /\ req' = [req EXCEPT ![p] = Respond(req[p], 404, "movieNotFound")]
            /\ UNCHANGED movies
       ELSE /\ movies' = [movies EXCEPT ![req[p].movie] = Updated(@, req[p].doc)]
            /\ req' = [req EXCEPT ![p] = [req[p] EXCEPT !.pc = "mu_del"]]
    /\ emitted' = NoEvent
    /\ UNCHANGED <<store, now, bookings, payments, nreq, shows, backend>>

\* await redis.del('movies:all')
MovieUpdateDelList(p) ==
    /\ req[p].pc = "mu_del"
    /\ store' = InvalidateList(store)
    /\ req' = [req EXCEPT ![p] = [req[p] EXCEPT !.pc = "mu_del2"]]
    /\ emitted' = NoEvent
    /\ UNCHANGED <<now, bookings, payments, nreq, movies, shows, backend>>

\* await redis.del(`movies:${id}`); res.json
MovieUpdateDelDetail(p) ==
    /\ req[p].pc = "mu_del2"
    /\ store' = Del(store, {movieDetailKey(req[p].movie)})
    /\ req' = [req EXCEPT ![p] = Respond(req[p], 200, "movieUpdated")]
    /\ emitted' = NoEvent
    /\ UNCHANGED <<now, bookings, payments, nreq, movies, shows, backend>>

NextCache ==
    \/ \E p \in Procs : ListBegin(p)
    \/ \E p \in Procs : \E title \in {"t2", ""}, releaseDate \in {0, 1} :
          CreateBegin(p, title, releaseDate)
    \/ \E p \in Procs : \E id \in {"m1", "m2", "m9"} : DeactivateBegin(p, id)
    \/ \E p \in Procs : ListGet(p)
    \/ \E p \in Procs : ListFind(p)
    \/ \E p \in Procs : ListSet(p)
    \/ \E p \in Procs : CreateInsert(p)
    \/ \E p \in Procs : CreateDelList(p)
    \/ \E p \in Procs : CreateDelDetail(p)
    \/ \E p \in Procs : DeactivateUpdate(p)
    \/ \E p \in Procs : DeactivateDelList(p)
    \/ \E p \in Procs : DeactivateDelDetail(p)
    \/ Tick

SpecCache == Init /\ [][NextCache]_vars

\* ------------------------------------------------------ the show list cache
\* src/routes/show.routes.js, src/routes/admin.routes.js
SHOWS_TTL_SECONDS == 60
\* city.toLowerCase() of the cities of the requests
ToLowerCase(city) ==
    IF city \in {"Chennai", "chennai"} THEN "chennai"
    ELSE IF city \in {"Mumbai", "mumbai"} THEN "mumbai"
    ELSE city
\* getShowsCacheKey(movieId, city): a request without city has the key part 'all'
getShowsCacheKey(movieId, city) ==
    <<"shows", movieId, IF city = "" THEN "all" ELSE ToLowerCase(city)>>
\* the prefix of the pattern `shows:${movieId}:*`
showsPattern(movieId) == <<"shows", movieId, "">>
\* the _id given to the n-th Show document
ShowIds == <<"s1", "s2", "s3", "s4", "s5">>

\* a Show document as Mongoose returns it: movieId is an ObjectId, showTime a Date
ShowDocument(shs, id) ==
    [_id |-> id, movieId |-> [id |-> shs[id].movieId], city |-> shs[id].city,
     isActive |-> shs[id].isActive, showTime |-> [date |-> shs[id].showTime]]

\* Show.find({ movieId, isActive: true, city? }).sort({ showTime: 1 }): the city is
\* matched as sent; documents of one show time come in either order
ActiveShows(shs, movieId, city) ==
    LET ids == {id \in DOMAIN shs : /\ shs[id].movieId = movieId
                                    /\ shs[id].isActive
                                    /\ city = "" \/ shs[id].city = city}
        n == Cardinality(ids)
    IN { [i \in 1..n |-> ShowDocument(shs, f[i])] :
           f \in {g \in [1..n -> ids] :
                    /\ \A i, j \in 1..n : i # j => g[i] # g[j]
                    /\ \A i \in 1..n, j \in 1..n :
                          i < j => shs[g[i]].showTime <= shs[g[j]].showTime} }

\* `${value}` of a document's movieId: the id for an ObjectId, 'null' for null, and
\* for a populated Movie document the text of the whole document
\* (Document.prototype.toString is inspect)
TemplateString(v) ==
    IF "null" \in DOMAIN v THEN "null"
    ELSE IF "id" \in DOMAIN v THEN v.id
    ELSE "{ _id: " \o v.doc._id \o ", title: " \o v.doc.title \o " }"

\* GET /api/shows/:movieId?city= arrives
ShowsArrive(p, movieId, city) ==
    /\ NoneInFlight
    /\ nreq' = nreq + 1
    /\ req' = [req EXCEPT ![p] = [Idle EXCEPT !.op = "shows", !.movie = movieId,
                                              !.status = city, !.pc = "sl_get",
                                              !.n = nreq + 1]]
    /\ emitted' = NoEvent
    /\ UNCHANGED <<store, now, bookings, payments, movies, shows, backend>>

\* cached = await redis.get(cacheKey): a hit is answered from the cache
ShowsGet(p) ==
    /\ req[p].pc = "sl_get"
    /\ LET key == getShowsCacheKey(req[p].movie, req[p].status)
           cached == Get(store, key)
       IN /\ req' = [req EXCEPT ![p] =
                       IF cached # Null
                       THEN Respond([req[p] EXCEPT !.acc = ResJson(JSONParse(cached))],
                                    200, "fromCache")
                       ELSE [req[p] EXCEPT !.pc = "sl_find"]]
          /\ store' = AfterGet(store, key)
    /\ emitted' = NoEvent
    /\ UNCHANGED <<now, bookings, payments, nreq, movies, shows, backend>>

\* redis.get rejects or JSON.parse throws: the inner catch logs and the list is loaded
ShowsGetThrows(p) ==
    /\ req[p].pc = "sl_get"
    /\ req' = [req EXCEPT ![p] = [req[p] EXCEPT !.pc = "sl_find"]]
    /\ emitted' = NoEvent
    /\ UNCHANGED <<store, now, bookings, payments, nreq, movies, shows, backend>>

\* shows = await Show.find(query).sort({ showTime: 1 })
ShowsFind(p) ==
    /\ req[p].pc = "sl_find"
    /\ \E list \in ActiveShows(shows, req[p].movie, req[p].status) :
          req' = [req EXCEPT ![p] = [req[p] EXCEPT !.pc = "sl_set", !.acc = list]]
    /\ emitted' = NoEvent
    /\ UNCHANGED <<store, now, bookings, payments, nreq, movies, shows, backend>>

\* await redis.set(cacheKey, JSON.stringify(shows), 'EX', SHOWS_TTL_SECONDS);
\* res.json({ fromCache: false, data: shows })
ShowsSet(p) ==
    /\ req[p].pc = "sl_set"
    /\ store' = SetEx(store, getShowsCacheKey(req[p].movie, req[p].status),
                      JSONStringify(req[p].acc), SHOWS_TTL_SECONDS)
    /\ req' = [req EXCEPT ![p] =
                 Respond([req[p] EXCEPT !.acc = ResJson(req[p].acc)], 200, "fromStore")]
    /\ emitted' = NoEvent
    /\ UNCHANGED <<now, bookings, payments, nreq, movies, shows, backend>>

\* redis.set rejects: the inner catch logs and the loaded list is answered
ShowsSetThrows(p) ==
    /\ req[p].pc = "sl_set"
    /\ req' = [req EXCEPT ![p] =
                 Respond([req[p] EXCEPT !.acc = ResJson(req[p].acc)],
                         200, "fromStore")]
    /\ emitted' = NoEvent
    /\ UNCHANGED <<store, now, bookings, payments, nreq, movies, shows, backend>>

\* POST /api/shows of an administrator arrives; a body without one of the required
\* fields is answered 400
ShowCreateArrive(p, movieId, city, showTime) ==
    /\ NoneInFlight
    /\ nreq' = nreq + 1
    /\ LET r == [Idle EXCEPT !.op = "createShow", !.movie = movieId, !.status = city,
                             !.at = showTime, !.n = nreq + 1]
       IN req' = [req EXCEPT ![p] =
                    IF movieId = "" \/ city = "" \/ showTime = 0
                    THEN Respond(r, 400, "fieldsRequired")
                    ELSE [r EXCEPT !.pc = "sc_create"]]
    /\ emitted' = NoEvent
    /\ UNCHANGED <<store, now, bookings, payments, movies, shows, backend>>

\* show = await Show.create({ movieId, city, showTime, ... })
ShowCreateInsert(p) ==
    /\ req[p].pc = "sc_create"
    /\ Cardinality(DOMAIN shows) < MaxShows
    /\ LET id == ShowIds[Cardinality(DOMAIN shows) + 1]
       IN /\ shows' = (id :> [isActive |-> TRUE, movieId |-> req[p].movie,
                               city |-> req[p].status, showTime |-> req[p].at,
                               totalSeats |-> 3, seatLayout |-> << >>]) @@ shows
          /\ req' = [req EXCEPT ![p] = [req[p] EXCEPT !.pc = "sc_keys", !.show = id]]
    /\ emitted' = NoEvent
    /\ UNCHANGED <<store, now, bookings, payments, nreq, movies, backend>>

\* keys = await redis.keys(`shows:${movieId}:*`); with no key, 201
ShowCreateKeys(p) ==
    /\ req[p].pc = "sc_keys"
    /\ LET keys == Keys(store, showsPattern(req[p].movie))
       IN req' = [req EXCEPT ![p] =
                    IF keys # {} THEN [req[p] EXCEPT !.pc = "sc_del", !.keys = keys]
                    ELSE Respond(req[p], 201, "showCreated")]
    /\ emitted' = NoEvent
    /\ UNCHANGED <<store, now, bookings, payments, nreq, movies, shows, backend>>

\* await redis.del(keys); 201
ShowCreateDel(p) ==
    /\ req[p].pc = "sc_del"
    /\ store' = Del(store, req[p].keys)
    /\ req' = [req EXCEPT ![p] = Respond(req[p], 201, "showCreated")]
    /\ emitted' = NoEvent
    /\ UNCHANGED <<now, bookings, payments, nreq, movies, shows, backend>>

\* PUT /api/admin/shows/:id of an administrator arrives with the fields to change
ShowUpdateArrive(p, id, updates) ==
    /\ NoneInFlight
    /\ nreq' = nreq + 1
    /\ req' = [req EXCEPT ![p] = [Idle EXCEPT !.op = "updateShow", !.show = id,
                                              !.doc = updates, !.pc = "su_update",
                                              !.n = nreq + 1]]
    /\ emitted' = NoEvent
    /\ UNCHANGED <<store, now, bookings, payments, movies, shows, backend>>

\* .populate('movieId'): the Movie document in place of its id, null when there is none
Populated(ms, movieId) ==
    IF movieId \in DOMAIN ms THEN [doc |-> MovieDocument(ms, movieId)] ELSE Null

\* show = await Show.findByIdAndUpdate(id, updates, { new: true }).populate('movieId')
ShowUpdateApply(p) ==
    /\ req[p].pc = "su_update"
    /\ IF req[p].show \notin DOMAIN shows
       THEN /\ req' = [req EXCEPT ![p] = Respond(req[p], 404, "showNotFound")]
            /\ UNCHANGED shows
       ELSE LET doc == Updated(shows[req[p].show], req[p].doc)
            IN /\ shows' = [shows EXCEPT ![req[p].show] = doc]
               /\ req' = [req EXCEPT ![p] =
                            [req[p] EXCEPT !.pc = "su_keys",
                                           !.doc = [movieId |-> Populated(movies, doc.movieId)]]]
    /\ emitted' = NoEvent
    /\ UNCHANGED <<store, now, bookings, payments, nreq, movies, backend>>

\* keys = await redis.keys(`shows:${show.movieId}:*`); with no key, the answer
ShowUpdateKeys(p) ==
    /\ req[p].pc = "su_keys"
    /\ LET keys == Keys(store, showsPattern(TemplateString(req[p].doc.movieId)))
       IN req' = [req EXCEPT ![p] =
                    IF keys # {} THEN [req[p] EXCEPT !.pc = "su_del", !.keys = keys]
                    ELSE Respond(req[p], 200, "showUpdated")]
    /\ emitted' = NoEvent
    /\ UNCHANGED <<store, now, bookings, payments, nreq, movies, shows, backend>>

\* await redis.del(keys); the answer
ShowUpdateDel(p) ==
    /\ req[p].pc = "su_del"
    /\ store' = Del(store, req[p].keys)
    /\ req' = [req EXCEPT ![p] = Respond(req[p], 200, "showUpdated")]
    /\ emitted' = NoEvent
    /\ UNCHANGED <<now, bookings, payments, nreq, movies, shows, backend>>

\* DELETE /api/admin/shows/:id of an administrator arrives
ShowDeactivateArrive(p, id) ==
    /\ NoneInFlight
    /\ nreq' = nreq + 1
    /\ req' = [req EXCEPT ![p] = [Idle EXCEPT !.op = "deactivateShow", !.show = id,
                                              !.pc = "sd_update", !.n = nreq + 1]]
    /\ emitted' = NoEvent
    /\ UNCHANGED <<store, now, bookings, payments, movies, shows, backend>>

\* show = await Show.findByIdAndUpdate(id, { isActive: false }, { new: true })
ShowDeactivateApply(p) ==
    /\ req[p].pc = "sd_update"
    /\ IF req[p].show \notin DOMAIN shows
       THEN /\ req' = [req EXCEPT ![p] = Respond(req[p], 404, "showNotFound")]
            /\ UNCHANGED shows
       ELSE /\ shows' = [shows EXCEPT ![req[p].show].isActive = FALSE]
            /\ req' = [req EXCEPT ![p] =
                         [req[p] EXCEPT !.pc = "sd_keys",
                                        !.doc = [movieId |-> [id |-> shows[req[p].show].movieId]]]]
    /\ emitted' = NoEvent
    /\ UNCHANGED <<store, now, bookings, payments, nreq, movies, backend>>

\* keys = await redis.keys(`shows:${show.movieId}:*`); with no key, the answer
ShowDeactivateKeys(p) ==
    /\ req[p].pc = "sd_keys"
    /\ LET keys == Keys(store, showsPattern(TemplateString(req[p].doc.movieId)))
       IN req' = [req EXCEPT ![p] =
                    IF keys # {} THEN [req[p] EXCEPT !.pc = "sd_del", !.keys = keys]
                    ELSE Respond(req[p], 200, "showDeactivated")]
    /\ emitted' = NoEvent
    /\ UNCHANGED <<store, now, bookings, payments, nreq, movies, shows, backend>>

\* await redis.del(keys); the answer
ShowDeactivateDel(p) ==
    /\ req[p].pc = "sd_del"
    /\ store' = Del(store, req[p].keys)
    /\ req' = [req EXCEPT ![p] = Respond(req[p], 200, "showDeactivated")]
    /\ emitted' = NoEvent
    /\ UNCHANGED <<now, bookings, payments, nreq, movies, shows, backend>>

\* Cached reads and the mutations of movies and shows, one request at a time.
\* ShowUpdateDel is no step of it: the pattern ShowUpdateKeys asks for is made from
\* a populated document (or from null) and no key of the store begins with it
NextInvalidate ==
    \/ \E p \in Procs : nreq < MaxInvalidateRequests /\ ListArrive(p)
    \/ \E p \in Procs : \E id \in {"m1", "m9"} :
          nreq < MaxInvalidateRequests /\ DetailArrive(p, id)
    \/ \E p \in Procs : nreq < MaxInvalidateRequests /\ CreateArrive(p, "t2", 1)
    \/ \E p \in Procs : \E id \in {"m1", "m9"},
                           updates \in {[title |-> "t9"], [isActive |-> FALSE]} :
          nreq < MaxInvalidateRequests /\ MovieUpdateArrive(p, id, updates)
    \/ \E p \in Procs : \E id \in {"m1", "m9"} :
          nreq < MaxInvalidateRequests /\ DeactivateArrive(p, id)
    \/ \E p \in Procs : \E movieId \in {"m1", "m2"}, city \in {"", "Chennai"} :
          nreq < MaxInvalidateRequests /\ ShowsArrive(p, movieId, city)
    \/ \E p \in Procs : \E city \in {"Chennai", ""}, showTime \in {1, 2} :
          nreq < MaxInvalidateRequests /\ ShowCreateArrive(p, "m1", city, showTime)
    \/ \E p \in Procs : \E id \in {"s1", "s9"},
                           updates \in {[city |-> "Mumbai"], [movieId |-> "m2"],
                                        [movieId |-> "m9"]} :
          nreq < MaxInvalidateRequests /\ ShowUpdateArrive(p, id, updates)
    \/ \E p \in Procs : \E id \in {"s1", "s9"} :
          nreq < MaxInvalidateRequests /\ ShowDeactivateArrive(p, id)
    \/ \E p \in Procs : ListGet(p)
    \/ \E p \in Procs : ListFind(p)
    \/ \E p \in Procs : ListSet(p)
    \/ \E p \in Procs : DetailGet(p)
    \/ \E p \in Procs : DetailFind(p)
    \/ \E p \in Procs : DetailSet(p)
    \/ \E p \in Procs : CreateInsert(p)
    \/ \E p \in Procs : CreateDelList(p)
    \/ \E p \in Procs : CreateDelDetail(p)
    \/ \E p \in Procs : MovieUpdateApply(p)
    \/ \E p \in Procs : MovieUpdateDelList(p)
    \/ \E p \in Procs : MovieUpdateDelDetail(p)
    \/ \E p \in Procs : DeactivateUpdate(p)
    \/ \E p \in Procs : DeactivateDelList(p)
    \/ \E p \in Procs : DeactivateDelDetail(p)
    \/ \E p \in Procs : ShowsGet(p)
    \/ \E p \in Procs : ShowsFind(p)
    \/ \E p \in Procs : ShowsSet(p)
    \/ \E p \in Procs : ShowCreateInsert(p)
    \/ \E p \in Procs : ShowCreateKeys(p)
    \/ \E p \in Procs : ShowCreateDel(p)
    \/ \E p \in Procs : ShowUpdateApply(p)
    \/ \E p \in Procs : ShowUpdateKeys(p)
    \/ \E p \in Procs : ShowDeactivateApply(p)
    \/ \E p \in Procs : ShowDeactivateKeys(p)
    \/ \E p \in Procs : ShowDeactivateDel(p)

SpecInvalidate == Init /\ [][NextInvalidate]_vars

\* The three cached reads with a key store whose commands may fail, a movie being
\* deactivated in between, and the clock
NextReads ==
    \/ \E p \in Procs : nreq < MaxReadRequests /\ ListArrive(p)
    \/ \E p \in Procs : \E id \in {"m1", "m9"} :
          nreq < MaxReadRequests /\ DetailArrive(p, id)
    \/ \E p \in Procs : \E movieId \in {"m1", "m2"}, city \in {"", "Chennai", "chennai"} :
          nreq < MaxReadRequests /\ ShowsArrive(p, movieId, city)
    \/ \E p \in Procs : nreq < MaxReadRequests /\ DeactivateArrive(p, "m1")
    \/ \E p \in Procs : ListGet(p)
    \/ \E p \in Procs : ListGetThrows(p)
    \/ \E p \in Procs : ListFind(p)
    \/ \E p \in Procs : ListSet(p)
    \/ \E p \in Procs : ListSetThrows(p)
    \/ \E p \in Procs : DetailGet(p)
    \/ \E p \in Procs : DetailGetThrows(p)
    \/ \E p \in Procs : DetailFind(p)
    \/ \E p \in Procs : DetailSet(p)
    \/ \E p \in Procs : DetailSetThrows(p)
    \/ \E p \in Procs : ShowsGet(p)
    \/ \E p \in Procs : ShowsGetThrows(p)
    \/ \E p \in Procs : ShowsFind(p)
    \/ \E p \in Procs : ShowsSet(p)
    \/ \E p \in Procs : ShowsSetThrows(p)
    \/ \E p \in Procs : DeactivateUpdate(p)
    \/ \E p \in Procs : DeactivateDelList(p)
    \/ \E p \in Procs : DeactivateDelDetail(p)
    \/ Tick

SpecReads == Init /\ [][NextReads]_vars

\* ------------------------------------------- the swap to the network store
\* src/config/redis.js. With REDIS_URL set, getRedisClient starts on the in-memory
\* client and creates the ioredis client, whose connection is being made.
\* backend.client is clientInternal, backend.link the connection of the ioredis
\* client, store the content of the store clientInternal talks to, and
\* backend.parked the Map of the in-memory client once it is no longer talked to.
WithRedisUrl == [client |-> "memory", link |-> "connecting", parked |-> << >>]

InitSwap ==
    /\ store = << >>
    /\ now = 0
    /\ bookings = << >>
    /\ payments = << >>
    /\ req = [p \in Procs |-> Idle]
    /\ emitted = NoEvent
    /\ nreq = 0
    /\ movies = MovieDocs
    /\ shows = ShowDocs
    /\ backend = WithRedisUrl

\* a swap that carries the keys of the in-memory client over to the network store
Connect_Migrating ==
    /\ backend.link = "connecting"
    /\ backend' = [client |-> "redis", link |-> "up", parked |-> store]
    /\ emitted' = NoEvent
    /\ UNCHANGED <<store, now, bookings, payments, req, nreq, movies, shows>>

\* r.on('connect'): clientInternal = r. The network store is a fresh one; the Map of
\* the in-memory client keeps its keys and is not read again
Connect ==
    /\ backend.link = "connecting"
    /\ backend' = [client |-> "redis", link |-> "up", parked |-> store]
    /\ store' = << >>
    /\ emitted' = NoEvent
    /\ UNCHANGED <<now, bookings, payments, req, nreq, movies, shows>>

\* r.on('error') before any connect: r.disconnect(); clientInternal stays the
\* in-memory client
ConnectError ==
    /\ backend.link = "connecting"
    /\ backend' = [backend EXCEPT !.link = "down"]
    /\ emitted' = NoEvent
    /\ UNCHANGED <<store, now, bookings, payments, req, nreq, movies, shows>>

\* r.on('error') after the swap: r.disconnect(); clientInternal stays r, whose
\* commands reject from now on
LinkError ==
    /\ backend.link = "up"
    /\ backend' = [backend EXCEPT !.link = "down"]
    /\ emitted' = NoEvent
    /\ UNCHANGED <<store, now, bookings, payments, req, nreq, movies, shows>>

\* the commands of clientInternal are answered: it is the in-memory client, or the
\* ioredis client with its connection up
Serving == backend.client = "memory" \/ backend.link = "up"

\* redis.get / redis.set of lock-seats rejects: the handler's catch answers 500
LockGetThrows(p) ==
    /\ req[p].pc = "l_get"
    /\ req' = [req EXCEPT ![p] = Respond(req[p], 500, "internalError")]
    /\ emitted' = NoEvent
    /\ UNCHANGED <<store, now, bookings, payments, nreq, movies, shows, backend>>

LockSetThrows(p) ==
    /\ req[p].pc = "l_set"
    /\ req' = [req EXCEPT ![p] = Respond(req[p], 500, "internalError")]
    /\ emitted' = NoEvent
    /\ UNCHANGED <<store, now, bookings, payments, nreq, movies, shows, backend>>

\* redis.keys / redis.get of the seat map rejects: the handler's catch answers 500
SeatsKeysThrows(p) ==
    /\ req[p].pc = "m_keys"
    /\ req' = [req EXCEPT ![p] = Respond(req[p], 500, "internalError")]
    /\ emitted' = NoEvent
    /\ UNCHANGED <<store, now, bookings, payments, nreq, movies, shows, backend>>

SeatsGetThrows(p) ==
    /\ req[p].pc = "m_get"
    /\ req' = [req EXCEPT ![p] = Respond(req[p], 500, "internalError")]
    /\ emitted' = NoEvent
    /\ UNCHANGED <<store, now, bookings, payments, nreq, movies, shows, backend>>

\* lock-seats, the seat map and the movie list while the ioredis client connects,
\* becomes clientInternal and loses its connection
NextSwap ==
    \/ Connect
    \/ ConnectError
    \/ LinkError
    \/ \E p \in Procs : nreq < MaxSwapRequests /\ LockBegin(p, UserOf(p), "s1", <<SeatA1>>)
    \/ \E p \in Procs : nreq < MaxSwapRequests /\ SeatsStart(p, "s1")
    \/ \E p \in Procs : nreq < MaxSwapRequests /\ ListArrive(p)
    \/ \E p \in Procs : Serving /\ LockIncr(p)
    \/ \E p \in Procs : ~Serving /\ LockIncrThrows(p)
    \/ \E p \in Procs : Serving /\ LockExpire(p)
    \/ \E p \in Procs : ~Serving /\ LockExpireThrows(p)
    \/ \E p \in Procs : LockShow(p)
    \/ \E p \in Procs : Serving /\ LockGet(p)
    \/ \E p \in Procs : ~Serving /\ LockGetThrows(p)
    \/ \E p \in Procs : Serving /\ LockSet(p)
    \/ \E p \in Procs : ~Serving /\ LockSetThrows(p)
    \/ \E p \in Procs : SeatsShow(p)
    \/ \E p \in Procs : Serving /\ SeatsKeys(p)
    \/ \E p \in Procs : ~Serving /\ SeatsKeysThrows(p)
    \/ \E p \in Procs : Serving /\ SeatsGet(p)
    \/ \E p \in Procs : ~Serving /\ SeatsGetThrows(p)
    \/ \E p \in Procs : Serving /\ ListGet(p)
    \/ \E p \in Procs : ~Serving /\ ListGetThrows(p)
    \/ \E p \in Procs : ListFind(p)
    \/ \E p \in Procs : Serving /\ ListSet(p)
    \/ \E p \in Procs : ~Serving /\ ListSetThrows(p)
    \/ Tick

SpecSwap == InitSwap /\ [][NextSwap]_vars

\* The movie list read and the movie mutations with overlapping requests: a worker
\* takes its next request while the other worker's request is at an await
NextOverlap ==
    \/ \E p \in Procs : nreq < MaxOverlapRequests /\ ListEnter(p)
    \/ \E p \in Procs : nreq < MaxOverlapRequests /\ CreateEnter(p, "t2", 1)
    \/ \E p \in Procs : \E updates \in {[title |-> "t9"], [isActive |-> FALSE]} :
          nreq < MaxOverlapRequests /\ MovieUpdateEnter(p, "m1", updates)
    \/ \E p \in Procs : ListGet(p)
    \/ \E p \in Procs : ListFind(p)
    \/ \E p \in Procs : ListSet(p)
    \/ \E p \in Procs : CreateInsert(p)
    \/ \E p \in Procs : CreateDelList(p)
    \/ \E p \in Procs : CreateDelDetail(p)
    \/ \E p \in Procs : MovieUpdateApply(p)
    \/ \E p \in Procs : MovieUpdateDelList(p)
    \/ \E p \in Procs : MovieUpdateDelDetail(p)

SpecOverlap == Init /\ [][NextOverlap]_vars

\* ------------------------------------------- request bodies that repeat a seat
\* a seat identifier that no layout of the shows has
SeatZ9 == <<"Z-9">>
\* lock-seats and createBooking with seats arrays that name a seat once or twice, or
\* a seat the show does not have
BodySeatArrays == {<<SeatA1>>, <<SeatA1, SeatA1>>, <<SeatZ9>>}
BodyLock(p, seats) ==
    nreq < MaxBodyRequests /\ LockBegin(p, UserOf(p), "s1", seats)
BodyBook(p, seats) ==
    nreq < MaxBodyRequests /\ BookBegin(p, UserOf(p), "s1", "m1", seats)

NextBody ==
    \/ \E p \in Procs : \E seats \in BodySeatArrays : BodyLock(p, seats)
    \/ \E p \in Procs : \E seats \in BodySeatArrays : BodyBook(p, seats)
    \/ \E p \in Procs : LockIncr(p)
    \/ \E p \in Procs : LockExpire(p)
    \/ \E p \in Procs : LockShow(p)
    \/ \E p \in Procs : LockGet(p)
    \/ \E p \in Procs : LockSet(p)
    \/ \E p \in Procs : BookIncr(p)
    \/ \E p \in Procs : BookExpire(p)
    \/ \E p \in Procs : BookShow(p)
    \/ \E p \in Procs : BookMovie(p)
    \/ \E p \in Procs : BookGet(p)
    \/ \E p \in Procs : BookInsert(p)
    \/ \E p \in Procs : BookRequery(p)
    \/ \E p \in Procs : BookDel(p)

SpecBody == Init /\ [][NextBody]_vars

\* ------------------------------------------------- the rate-limit window
\* one user's lock-seats attempts, from either worker, while the clock advances in
\* steps of half a window
WindowStep == LOCK_RATE_LIMIT_TTL \div 2
WindowTick ==
    /\ now < MaxWindowSteps * WindowStep
    /\ Elapse(WindowStep)
WindowLock(p) ==
    nreq < MaxWindowRequests /\ LockBegin(p, "u1", "s1", <<SeatA1>>)

NextWindow ==
    \/ \E p \in Procs : WindowLock(p)
    \/ \E p \in Procs : LockIncr(p)
    \/ \E p \in Procs : LockExpire(p)
    \/ \E p \in Procs : LockShow(p)
    \/ \E p \in Procs : LockGet(p)
    \/ \E p \in Procs : LockSet(p)
    \/ WindowTick
    \/ \E k \in DOMAIN store : TimerFire(k)

SpecWindow == Init /\ [][NextWindow]_vars

\* ================================================================= claims
NonCancelled(b) == b.bookingStatus # "CANCELLED"
\* seatId belongs to a non-cancelled booking of the show
Booked(showId, seatId) ==
    \E n \in 1..Len(bookings) :
        /\ NonCancelled(bookings[n])
        /\ bookings[n].showId = showId
        /\ seatId \in Range(bookings[n].seats)
\* the store holds an unexpired lock for the seat
LockHeld(st, showId, seatId) ==
    /\ getSeatKey(showId, seatId) \in DOMAIN st
    /\ st[getSeatKey(showId, seatId)].expiresAt >= now
\* ... whose holder is userId
LockHeldBy(st, showId, seatId, userId) ==
    /\ LockHeld(st, showId, seatId)
    /\ st[getSeatKey(showId, seatId)].value.userId = userId
LockKeys(st) == {k \in DOMAIN st : k[1] = "seatlock"}
Overlap(r1, r2) == r1.show = r2.show /\ Range(r1.seats) \cap Range(r2.seats) # {}

\* C1: in every reachable state, no seat of a show belongs to two distinct
\* bookings of that show that are both not CANCELLED.
C1_NoSeatInTwoBookings ==
    \A m, n \in 1..Len(bookings) :
        (m < n /\ bookings[m].showId = bookings[n].showId
               /\ NonCancelled(bookings[m]) /\ NonCancelled(bookings[n]))
        => Range(bookings[m].seats) \cap Range(bookings[n].seats) = {}

\* a createBooking that passed its lock validation was rejected by the index
\* while the other user's booking holds one of its seats
C1_Witness ==
    \E p \in Procs :
        /\ req[p].op = "book" /\ req[p].pc = "done" /\ req[p].resp.msg = "alreadyBooked"
        /\ \E n \in 1..Len(bookings) :
              /\ NonCancelled(bookings[n]) /\ bookings[n].showId = req[p].show
              /\ bookings[n].userId # req[p].user
              /\ Range(bookings[n].seats) \cap Range(req[p].seats) # {}

\* a non-cancelled booking of the show has one of the request's seats
Rival(r) == \E seatId \in Range(r.seats) : Booked(r.show, seatId)

\* the insert step of createBooking and the step after a rejected insert
C2_InsertStep ==
    \A p \in Procs :
        /\ (req[p].pc = "b_insert" /\ req'[p] # req[p]) =>
              IF Rival(req[p])
              THEN bookings' = bookings /\ req'[p].pc = "b_requery" /\ req'[p].bid = 0
              ELSE /\ bookings' = Append(bookings, bookings'[Len(bookings')])
                   /\ bookings'[Len(bookings')].bookingStatus = "CONFIRMED"
                   /\ bookings'[Len(bookings')].seats = req[p].seats
                   /\ bookings'[Len(bookings')].userId = req[p].user
        /\ (req[p].pc = "b_requery" /\ req'[p] # req[p]) =>
              /\ bookings' = bookings
              /\ req'[p].pc = "done" /\ req'[p].resp.code = 409 /\ req'[p].bid = 0

\* two createBooking requests for overlapping seats never both hold a
\* non-cancelled booking
C2_AtMostOnePersists ==
    \A p, q \in Procs :
        (p # q /\ req[p].op = "book" /\ req[q].op = "book" /\ Overlap(req[p], req[q])
               /\ req[p].bid # 0 /\ req[q].bid # 0)
        => ~(NonCancelled(bookings[req[p].bid]) /\ NonCancelled(bookings[req[q].bid]))

\* C2: of the createBooking requests for overlapping seats of a show that race at
\* the insert, the one whose insert finds no non-cancelled booking on its seats is
\* persisted CONFIRMED; every one whose insert finds such a booking is answered 409
\* and adds no booking record; never two of them hold a non-cancelled booking.
C2_RaceAtInsert == [] C2_AtMostOnePersists /\ [][C2_InsertStep]_vars

\* one racer answered 201 with the only booking record, the other answered 409
C2_Witness ==
    \E p, q \in Procs :
        /\ p # q /\ req[p].op = "book" /\ req[q].op = "book" /\ Overlap(req[p], req[q])
        /\ req[p].pc = "done" /\ req[p].resp.code = 201 /\ req[p].bid = 1
        /\ req[q].pc = "done" /\ req[q].resp.code = 409 /\ req[q].resp.msg = "alreadyBooked"
        /\ req[q].bid = 0
        /\ Len(bookings) = 1 /\ NonCancelled(bookings[1])

\* the lock-seats request has decided to grant, or has answered Granted
Granting(r) ==
    r.op = "lock" /\ (r.pc = "l_set" \/ (r.pc = "done" /\ r.resp.code = 200))

\* C3: of two lock-seats requests by different users for overlapping seats of a
\* show, at most one is granted, and the other is answered Conflicts with exactly
\* the common seats.
C3_AtMostOneGranted ==
    \A p, q \in Procs :
        (p # q /\ req[p].op = "lock" /\ req[q].op = "lock"
               /\ req[p].user # req[q].user /\ Overlap(req[p], req[q]))
        => /\ ~(Granting(req[p]) /\ Granting(req[q]))
           /\ (Granting(req[p]) /\ req[q].pc = "done" /\ req[q].resp.code = 409)
                 => Range(req[q].acc) = Range(req[p].seats) \cap Range(req[q].seats)

\* C4: when a lock-seats request completes, either it is answered Granted and every
\* requested seat holds a lock of the requester, or it has changed no lock key.
C4_AllOrNothing ==
    [][\A p \in Procs :
         (req[p].op = "lock" /\ req[p].pc \in {"l_get", "l_set"} /\ req'[p].pc = "done") =>
            IF req'[p].resp.code = 200
            THEN \A seatId \in Range(req[p].seats) :
                    LockHeldBy(store', req[p].show, seatId, req[p].user)
            ELSE \A k \in LockKeys(store) \cup LockKeys(store') :
                    k \in DOMAIN store /\ k \in DOMAIN store' /\ store'[k] = store[k]]_vars

\* C5: a lock that exists is not overwritten: from its creation to its removal its
\* holder, acquisition time and expiry stay the same.
C5_LockNeverOverwritten ==
    [][\A k \in LockKeys(store) \cap LockKeys(store') : store'[k] = store[k]]_vars

\* C6: a lock-seats request for a seat on which the requester holds an unexpired
\* lock counts that seat as a conflict.
C6_OwnLockIsConflict ==
    [][\A p \in Procs :
         (req[p].pc = "l_get" /\ req'[p] # req[p]
            /\ LockHeldBy(store, req[p].show, req[p].seats[req[p].i], req[p].user))
         => req[p].seats[req[p].i] \in Range(req'[p].acc)]_vars

\* every lock in the store expires, within the TTL from now, and is never present
\* after its expiry instant
C7_LocksAreTransient ==
    \A k \in LockKeys(store) :
        /\ store[k].expiresAt # NoExpiry
        /\ now <= store[k].expiresAt
        /\ store[k].expiresAt <= now + SEAT_LOCK_TTL_SECONDS

\* a seat without an unexpired lock is reported as not locked by the seat map and
\* is no conflict for lock-seats
C7_ExpiredIsFree ==
    \A p \in Procs :
        /\ (req[p].pc \in {"m_keys", "m_get"} /\ req'[p].pc = "done" /\ req'[p].resp.code = 200)
              => \A seatId \in req'[p].locked : LockHeld(store, req[p].show, seatId)
        /\ (req[p].pc = "l_get" /\ req'[p] # req[p]
              /\ ~LockHeld(store, req[p].show, req[p].seats[req[p].i]))
              => req'[p].acc = req[p].acc

\* C7: a granted lock is removed by the store when its TTL has elapsed; the seat is
\* then reported as not locked and a lock-seats request of another user finds no
\* conflict on it. No lock is without expiry.
C7_LockExpires == [] C7_LocksAreTransient /\ [][C7_ExpiredIsFree]_vars

\* only two requests were ever made: p was granted the seat, its lock is gone from
\* the store, and the other user's request has found no conflict on the seat
C7_Witness ==
    \E p, q \in Procs :
        /\ nreq = 2 /\ p # q
        /\ req[p].op = "lock" /\ req[p].pc = "done" /\ req[p].resp.code = 200
        /\ req[q].op = "lock" /\ req[q].pc = "l_set" /\ req[q].i = 1
        /\ req[q].at >= SEAT_LOCK_TTL_SECONDS
        /\ req[q].seats[1] \in Range(req[p].seats)
        /\ getSeatKey(req[q].show, req[q].seats[1]) \notin DOMAIN store

\* the lock validation steps of createBooking
C8_ValidationStep ==
    \A p \in Procs :
        (req[p].pc = "b_get" /\ req'[p] # req[p]) =>
            LET seatId == req[p].seats[req[p].i]
            IN /\ req'[p].acc = IF LockHeldBy(store, req[p].show, seatId, req[p].user)
                                THEN req[p].acc ELSE Append(req[p].acc, seatId)
               /\ store' = store /\ bookings' = bookings
               /\ req'[p].pc = "b_insert" => req'[p].acc = <<>>
               /\ req'[p].pc = "done" => req'[p].resp.code = 409 /\ req'[p].acc # <<>>
               /\ req'[p].pc \in {"b_get", "b_insert", "done"}
               /\ req'[p].pc = "b_get" <=> req[p].i < Len(req[p].seats)

\* a booking record is created only by a request whose validation found no
\* invalid seat
C8_InsertOnlyAfterValidation ==
    Len(bookings') > Len(bookings) =>
        \E p \in Procs :
            /\ req[p].pc = "b_insert" /\ req[p].acc = <<>>
            /\ bookings'[Len(bookings')].userId = req[p].user
            /\ bookings'[Len(bookings')].seats = req[p].seats

\* C8: createBooking persists a booking only if every requested seat held a lock of
\* the requesting user when it was checked; otherwise it is answered 409 with exactly
\* the requested seats found unlocked or locked by another user, and creates no
\* booking and changes no lock.
C8_BookingNeedsOwnLocks ==
    [][C8_ValidationStep /\ C8_InsertOnlyAfterValidation]_vars

\* a request for two seats, one locked by the requester, answered 409 with the other
C8_Witness ==
    \E p \in Procs :
        /\ req[p].op = "book" /\ req[p].pc = "done" /\ req[p].resp.msg = "notLocked"
        /\ req[p].seats = <<SeatA1, SeatA2>> /\ req[p].acc = <<SeatA2>>
        /\ LockHeldBy(store, req[p].show, SeatA1, req[p].user)
        /\ bookings = << >>

\* C9: a seat of a non-cancelled booking of another user is a conflict for
\* lock-seats, also after the booking commit has deleted the lock key.
C9_BookedSeatConflicts ==
    [][\A p \in Procs :
         (req[p].pc = "l_get" /\ req'[p] # req[p]
            /\ \E n \in 1..Len(bookings) :
                  /\ NonCancelled(bookings[n]) /\ bookings[n].showId = req[p].show
                  /\ bookings[n].userId # req[p].user
                  /\ req[p].seats[req[p].i] \in Range(bookings[n].seats))
         => req[p].seats[req[p].i] \in Range(req'[p].acc)]_vars

\* the lock keys the seat-map request has scanned when it answers
ScannedKeys(r) == IF r.pc = "m_keys" THEN Keys(store, seatLockPattern(r.show)) ELSE r.keys

\* C10: the seat map reports a seat as unavailable exactly when the request sees an
\* unexpired lock for it or the seat belongs to a non-cancelled booking of the show.
C10_SeatMapShowsLockedAndBooked ==
    [][\A p \in Procs :
         (req[p].pc \in {"m_keys", "m_get"} /\ req'[p].pc = "done" /\ req'[p].resp.code = 200)
         => req'[p].locked =
               {seatId \in SeatsOfShow(shows[req[p].show]) :
                   \/ /\ getSeatKey(req[p].show, seatId) \in ScannedKeys(req[p])
                      /\ LockHeld(store, req[p].show, seatId)
                   \/ Booked(req[p].show, seatId)}]_vars

\* C11: when createBooking answers 201, the store holds no lock key for any of the
\* committed seats of the show, and the stored booking is CONFIRMED and PENDING.
C11_CommittedSeatsUnlocked ==
    [][\A p \in Procs :
         (req[p].pc = "b_del" /\ req'[p].pc = "done" /\ req'[p].resp.code = 201) =>
            /\ \A seatId \in Range(req[p].seats) :
                  getSeatKey(req[p].show, seatId) \notin DOMAIN store'
            /\ bookings'[req[p].bid].bookingStatus = "CONFIRMED"
            /\ bookings'[req[p].bid].paymentStatus = "PENDING"]_vars

\* the booking a cancel request finds: its own booking with that id
FoundByCancel(r) ==
    r.bid \in 1..Len(bookings) /\ bookings[r.bid].userId = r.user

\* the find step of cancelBooking: a booking found CANCELLED, or with paymentStatus
\* SUCCESS, is answered 400 and nothing changes; any other booking found goes on to
\* be saved
C12_Rejection ==
    \A p \in Procs :
        (req[p].pc = "c_find" /\ req'[p] # req[p] /\ FoundByCancel(req[p])) =>
            IF \/ bookings[req[p].bid].bookingStatus = "CANCELLED"
               \/ bookings[req[p].bid].paymentStatus = "SUCCESS"
            THEN /\ req'[p].pc = "done" /\ req'[p].resp.code = 400
                 /\ bookings' = bookings /\ store' = store /\ emitted' = NoEvent
            ELSE req'[p].pc = "c_save"

\* the save step: bookingStatus CANCELLED, cancelledAt stamped, nothing else changed
C12_Cancellation ==
    \A p \in Procs :
        (req[p].pc = "c_save" /\ req'[p] # req[p]) =>
            /\ bookings'[req[p].bid].bookingStatus = "CANCELLED"
            /\ bookings'[req[p].bid].cancelledAt # NoExpiry
            /\ bookings'[req[p].bid].cancelledAt <= now
            /\ bookings' = [bookings EXCEPT
                              ![req[p].bid].bookingStatus = "CANCELLED",
                              ![req[p].bid].cancelledAt = bookings'[req[p].bid].cancelledAt]
            /\ req'[p].pc = "c_del" /\ req'[p].i = 1

\* the release steps: one per seat of the booking, in order, each deleting that
\* seat's lock key and nothing else; the answer 200 comes with the last
C12_Release ==
    \A p \in Procs :
        (req[p].pc = "c_del" /\ req'[p] # req[p]) =>
            LET key == getSeatKey(req[p].show, req[p].seats[req[p].i])
            IN /\ req[p].seats = bookings[req[p].bid].seats
               /\ req[p].show = bookings[req[p].bid].showId
               /\ store' = [k \in DOMAIN store \ {key} |-> store[k]]
               /\ bookings' = bookings
               /\ IF req[p].i < Len(req[p].seats)
                  THEN req'[p].pc = "c_del" /\ req'[p].i = req[p].i + 1
                  ELSE req'[p].pc = "done" /\ req'[p].resp.code = 200

C13_SettleRejectedOrFailed ==
    [][\A p \in Procs :
         /\ (req[p].pc = "p_find" /\ req'[p] # req[p]
               /\ req[p].bid \in 1..Len(bookings)
               /\ bookings[req[p].bid].userId = req[p].user
               /\ bookings[req[p].bid].paymentStatus = "SUCCESS")
            => /\ req'[p].pc = "done" /\ req'[p].resp.code = 400
               /\ bookings' = bookings /\ payments' = payments
         /\ (req[p].pc = "p_save" /\ req'[p] # req[p] /\ req[p].status = "FAILED")
            => /\ bookings'[req[p].bid].paymentStatus = "FAILED"
               /\ bookings'[req[p].bid].bookingStatus = "CANCELLED"]_vars

\* C14: the paymentStatus of a booking changes only from PENDING (to SUCCESS or to
\* FAILED): a booking whose paymentStatus is SUCCESS or FAILED keeps it.
C14_PaymentSettledOnce ==
    [][\A n \in 1..Len(bookings) :
         bookings'[n].paymentStatus # bookings[n].paymentStatus =>
            /\ bookings[n].paymentStatus = "PENDING"
            /\ bookings'[n].paymentStatus \in {"SUCCESS", "FAILED"}]_vars

\* the step is the save of a cancelBooking, or of a FAILED settlement, of booking n
CancellingStep(n) ==
    \E p \in Procs :
        /\ req[p].bid = n /\ req'[p] # req[p]
        /\ \/ req[p].pc = "c_save"
           \/ req[p].pc = "p_save" /\ req[p].status = "FAILED"

\* C15: every booking is created CONFIRMED and PENDING; a bookingStatus only ever
\* changes from CONFIRMED to CANCELLED, in the save of a cancelBooking or of a FAILED
\* settlement; a CANCELLED booking stays CANCELLED.
C15_BookingStatusLifecycle ==
    [][/\ Len(bookings') >= Len(bookings)
       /\ \A n \in (Len(bookings) + 1)..Len(bookings') :
             /\ bookings'[n].bookingStatus = "CONFIRMED"
             /\ bookings'[n].paymentStatus = "PENDING"
       /\ \A n \in 1..Len(bookings) :
             bookings'[n].bookingStatus # bookings[n].bookingStatus =>
                /\ bookings[n].bookingStatus = "CONFIRMED"
                /\ bookings'[n].bookingStatus = "CANCELLED"
                /\ CancellingStep(n)]_vars

\* a booking was created during the run (CONFIRMED, PENDING), and the first booking,
\* cancelled by a FAILED settlement, has since been settled again with SUCCESS and
\* is still CANCELLED
C15_Witness ==
    /\ Len(bookings) = 2
    /\ bookings[2].bookingStatus = "CONFIRMED" /\ bookings[2].paymentStatus = "PENDING"
    /\ bookings[1].bookingStatus = "CANCELLED" /\ bookings[1].paymentStatus = "SUCCESS"
    /\ Len(payments) = 2

\* the lock keys of a show in the store
ShowLockKeys(st, showId) == {k \in DOMAIN st : k[1] = "seatlock" /\ k[2] = showId}

\* the sweep of a SUCCESS settlement: it lists every lock key of the booking's show
\* and no other key, and its del removes exactly the listed keys
C16_Sweep ==
    \A p \in Procs :
        /\ (req[p].pc = "p_keys" /\ req'[p] # req[p]) =>
              /\ req[p].status = "SUCCESS" /\ req[p].show = bookings[req[p].bid].showId
              /\ store' = store
              /\ IF ShowLockKeys(store, req[p].show) = {}
                 THEN req'[p].pc = "done" /\ req'[p].resp.code = 201
                 ELSE req'[p].pc = "p_del"
                      /\ req'[p].keys = ShowLockKeys(store, req[p].show)
        /\ (req[p].pc = "p_del" /\ req'[p] # req[p]) =>
              /\ store' = [k \in DOMAIN store \ req[p].keys |-> store[k]]
              /\ req'[p].pc = "done" /\ req'[p].resp.code = 201
        /\ (req[p].pc = "p_save" /\ req'[p] # req[p]) =>
              /\ store' = store
              /\ req'[p].pc = "p_keys" <=> req[p].status = "SUCCESS"

LockAttemptsStarted == IF nreq < MaxLockAttempts THEN nreq ELSE MaxLockAttempts
BookAttemptsStarted == IF nreq > MaxLockAttempts THEN nreq - MaxLockAttempts ELSE 0
\* the rank, among the user's attempts, of the attempt that increments now: every
\* attempt started has incremented, but for those still waiting to
LockAttemptRank ==
    LockAttemptsStarted - Cardinality({q \in Procs : req[q].pc = "l_incr"}) + 1
BookAttemptRank ==
    BookAttemptsStarted - Cardinality({q \in Procs : req[q].pc = "b_incr"}) + 1
Rejected429(r) == r.pc = "done" /\ r.resp.code = 429

\* C17: within one window the lock-seats attempts of ranks 1..20 of a (user, show)
\* pair pass the rate limiter and every attempt of rank 21 or more is answered 429,
\* whatever the seats and the outcomes; the createBooking attempts of ranks 1..10 of
\* a user pass and every later one is answered 429.
C17_RateLimitThreshold ==
    [][\A p \in Procs :
         /\ (req[p].pc = "l_incr" /\ req'[p] # req[p]) =>
               /\ Rejected429(req'[p]) <=> LockAttemptRank > LOCK_RATE_LIMIT_MAX
               /\ ~Rejected429(req'[p]) => req'[p].pc \in {"l_expire", "l_show"}
         /\ (req[p].pc = "l_expire" /\ req'[p] # req[p]) => req'[p].pc = "l_show"
         /\ (req[p].pc = "b_incr" /\ req'[p] # req[p]) =>
               /\ Rejected429(req'[p]) <=> BookAttemptRank > BOOKING_RATE_LIMIT_MAX
               /\ ~Rejected429(req'[p]) => req'[p].pc \in {"b_expire", "b_show"}
         /\ (req[p].pc = "b_expire" /\ req'[p] # req[p]) => req'[p].pc = "b_show"]_vars

\* the 21st lock-seats attempt and the 11th createBooking attempt have been answered
\* 429, the 20th and the 10th were not
C17_Witness ==
    /\ nreq = MaxLockAttempts + BOOKING_RATE_LIMIT_MAX + 1
    /\ store[lockRateKey("u1", "s1")].value = MaxLockAttempts
    /\ store[bookingRateKey("u1")].value = BOOKING_RATE_LIMIT_MAX + 1
    /\ \E p \in Procs : req[p].op = "book" /\ Rejected429(req[p])

\* C18: when the increment or the expiry-set of the rate limiter fails, the request
\* is not rejected for it: it goes on to the show lookup.
C18_RateLimiterFailsOpen ==
    [][\A p \in Procs :
         /\ (req[p].pc \in {"l_incr", "l_expire"} /\ req'[p] # req[p] /\ store' = store)
               => req'[p].pc = "l_show"
         /\ (req[p].pc \in {"b_incr", "b_expire"} /\ req'[p] # req[p] /\ store' = store)
               => req'[p].pc = "b_show"]_vars

\* the key of the rate limiter a request counts on
RateKeyOf(r) ==
    IF r.op = "lock" THEN lockRateKey(r.user, r.show) ELSE bookingRateKey(r.user)

\* C19: an attempt over the limit is answered 429, not 409, at its increment; up to
\* the answer the request has changed nothing but its counter: no lock key, no
\* booking, and it publishes no event.
C19_RateRejectionHasNoEffect ==
    [][\A p \in Procs :
         /\ (req[p].pc \in {"l_incr", "b_incr"} /\ req'[p] # req[p]
               /\ IncrValue(store, RateKeyOf(req[p])) >
                     (IF req[p].op = "lock" THEN LOCK_RATE_LIMIT_MAX
                      ELSE BOOKING_RATE_LIMIT_MAX))
            => Rejected429(req'[p])
         /\ (req[p].pc # "done" /\ Rejected429(req'[p])) =>
               /\ req[p].pc \in {"l_incr", "b_incr"}
               /\ \A k \in (DOMAIN store \cup DOMAIN store') \ {RateKeyOf(req[p])} :
                     k \in DOMAIN store /\ k \in DOMAIN store' /\ store'[k] = store[k]
               /\ bookings' = bookings /\ payments' = payments
               /\ emitted' = NoEvent]_vars

\* a lock-seats attempt has been answered 429 while the user holds a lock
C19_Witness ==
    \E p \in Procs :
        /\ req[p].op = "lock" /\ Rejected429(req[p])
        /\ LockHeldBy(store, "s1", req[p].seats[1], "u1")

\* request r invalidated the list cache and has been answered
Invalidated(r) ==
    /\ r.pc = "done"
    /\ \/ r.op = "createMovie" /\ r.resp.code = 201
       \/ r.op = "deactivateMovie" /\ r.resp.code = 200
\* the GET /api/movies of worker p is the request that follows an invalidation
FollowsInvalidation(p) ==
    /\ req[p].op = "movies"
    /\ \E q \in Procs : Invalidated(req[q]) /\ req[p].n = req[q].n + 1

\* C20: with no other request in flight, a GET /api/movies that follows an
\* invalidation of the list misses the cache, queries the Movie collection and
\* answers fromCache false with the active movies of the collection, latest
\* release first.
C20_ReadAfterInvalidateLoads ==
    [][\A p \in Procs :
         /\ (FollowsInvalidation(p) /\ req[p].pc = "ml_get" /\ req'[p] # req[p])
               => req'[p].pc = "ml_find"
         /\ (FollowsInvalidation(p) /\ req[p].pc # "done" /\ req'[p].pc = "done")
               => /\ req[p].pc = "ml_set"
                  /\ req'[p].resp.msg = "fromStore"
                  /\ req'[p].acc \in {ResJson(list) : list \in ActiveMovies(movies)}]_vars

\* the GET that follows the creation of a movie, within the lifetime of any list
\* cached before it, has been answered from the collection with the new movie
C20_Witness ==
    \E p, q \in Procs :
        /\ req[q].op = "createMovie" /\ Invalidated(req[q]) /\ req[q].n >= 2
        /\ req[p].op = "movies" /\ req[p].pc = "done" /\ req[p].n = req[q].n + 1
        /\ req[p].resp.msg = "fromStore"
        /\ Len(req[p].acc) = 2
        /\ now = 0

\* C24: every 409 of lock-seats and of createBooking carries a non-empty list of
\* seat identifiers.
C24_ConflictNamesSeats ==
    [][\A p \in Procs :
         (req[p].pc # "done" /\ req'[p].pc = "done" /\ req'[p].resp.code = 409
            /\ req'[p].op \in {"lock", "book"})
         => req'[p].acc # <<>>]_vars

\* the seats of the request that belong to a non-cancelled booking of its show
BookedSeatsOf(r) == {s \in Range(r.seats) : Booked(r.show, s)}

C29_EventsOnlyOnSuccess ==
    [][/\ emitted'.type = "seatsLocked" =>
             \E p \in Procs :
                 /\ req[p].op = "lock" /\ req[p].pc # "done" /\ req'[p].pc = "done"
                 /\ req'[p].resp.code = 200
                 /\ emitted'.showId = req[p].show /\ emitted'.seats = req[p].seats
       /\ emitted'.type = "seatsBooked" =>
             \E p \in Procs :
                 /\ req[p].op = "book" /\ req[p].pc # "done" /\ req'[p].pc = "done"
                 /\ req'[p].resp.code = 201
                 /\ req'[p].bid \in 1..Len(bookings')
                 /\ bookings'[req'[p].bid].seats = emitted'.seats
                 /\ bookings'[req'[p].bid].showId = emitted'.showId]_vars

\* C26: a 409 of lock-seats lists seat identifiers of the request; a seat is put on
\* the list only if a lock of it exists when its key is read, and the seat read by
\* the step that answers 409 is on the list if a lock of it exists then; a seat
\* identifier is recovered unchanged from its lock key.
C26_ConflictsAreTheLockedSeats ==
    [][\A p \in Procs :
         (req[p].pc = "l_get" /\ req'[p] # req[p]) =>
            LET r == req[p]
                seatId == r.seats[r.i]
                key == getSeatKey(r.show, seatId)
            IN /\ req'[p].acc # r.acc =>
                     req'[p].acc = Append(r.acc, seatId) /\ Get(store, key) # Null
               /\ Range(req'[p].acc) \subseteq Range(r.seats)
               /\ SeatOfKey(key) = seatId
               /\ (req'[p].pc = "done" /\ req'[p].resp.code = 409 /\ Get(store, key) # Null)
                     => seatId \in Range(req'[p].acc)]_vars

\* C25: no booking in the collection names a seat twice in its seats array.
C25_SeatsOfBookingAreDistinct ==
    \A n \in 1..Len(bookings) :
        \A i, j \in 1..Len(bookings[n].seats) :
            i # j => bookings[n].seats[i] # bookings[n].seats[j]

RateKeys(st) == {k \in DOMAIN st : k[1] = "ratelimit"}
\* the window of the counter is over: its key is gone or its expiry has passed
WindowOver(k) == k \notin DOMAIN store \/ ~Live(store, k)

\* C28: a rate-limit counter that stays in the store never decreases and keeps the
\* expiry it has; the expiry is set, to one window from then, by the attempt that
\* counted 1; the counter leaves the store only at its expiry; and the increment
\* of an attempt made after the window is over counts 1 and is not rejected.
C28_CounterGrowsWithinWindow ==
    [][/\ \A k \in RateKeys(store) \cap RateKeys(store') :
             /\ store'[k].value >= store[k].value
             /\ store[k].expiresAt # NoExpiry => store'[k].expiresAt = store[k].expiresAt
             /\ store'[k].expiresAt # store[k].expiresAt =>
                   \E p \in Procs : /\ req[p].pc = "l_expire" /\ req[p].count = 1
                                    /\ req'[p].pc = "l_show"
                                    /\ store'[k].expiresAt = now + LOCK_RATE_LIMIT_TTL
       /\ \A k \in RateKeys(store) \ RateKeys(store') :
             store[k].expiresAt # NoExpiry /\ now' >= store[k].expiresAt
       /\ \A p \in Procs :
             (req[p].pc = "l_incr" /\ req'[p] # req[p]
                /\ WindowOver(lockRateKey(req[p].user, req[p].show)))
             => /\ store'[lockRateKey(req[p].user, req[p].show)].value = 1
                /\ req'[p].pc = "l_expire"]_vars

\* two attempts have been answered and the counter is 1, in a window that started
\* after the first window of the run ended
C28_Witness ==
    LET k == lockRateKey("u1", "s1")
    IN /\ \A p \in Procs : req[p].pc = "done" /\ req[p].resp.code = 200
       /\ k \in DOMAIN store
       /\ store[k].value = 1
       /\ store[k].expiresAt > 2 * LOCK_RATE_LIMIT_TTL

\* C21: when a mutation request is answered with success, the cache holds no entry of
\* what it changed: after a movie create, update or deactivate neither the movie
\* list key nor the detail key of that movie is in the store, and after a show
\* create, update or deactivate no show list key of the show's movie is in the
\* store, whatever the city.
C21_MutationLeavesNoCacheEntry ==
    [][\A p \in Procs :
          (/\ req[p].pc # "done"
           /\ req'[p].pc = "done"
           /\ req'[p].resp.code \in {200, 201})
          => /\ req[p].op \in {"createMovie", "updateMovie", "deactivateMovie"}
                => /\ MOVIES_CACHE_KEY \notin DOMAIN store'
                   /\ movieDetailKey(req[p].movie) \notin DOMAIN store'
             /\ req[p].op \in {"createShow", "updateShow", "deactivateShow"}
                => Keys(store', showsPattern(shows'[req[p].show].movieId)) = {}]_vars

\* the steps of one cached read: a read of a live key answers the cached payload at
\* once; a miss or a failed read goes on to the loader; the write-back, failed or
\* not, answers the loaded data
CachedRead(p, key, getStep, getThrows, setStep, setThrows, loaderPc) ==
    /\ (getStep /\ Get(store, key) # Null)
       => /\ req'[p].pc = "done"
          /\ req'[p].resp = [code |-> 200, msg |-> "fromCache"]
          /\ req'[p].acc = ResJson(JSONParse(Get(store, key)))
    /\ ((getStep /\ Get(store, key) = Null) \/ getThrows)
       => req'[p].pc = loaderPc
    /\ (setStep \/ setThrows)
       => /\ req'[p].pc = "done"
          /\ req'[p].resp = [code |-> 200, msg |-> "fromStore"]
          /\ req'[p].acc = ResJson(req[p].acc)

\* C22: a cached read (movie list, movie detail, show list) whose key is present
\* answers the cached payload without calling the loader; on a miss or a failed
\* cache read it calls the loader and answers the loader's result; a failed cache
\* read or write-back never makes the request fail and leaves the answered data
\* what the loader returned.
C22_CachedReadFallsBackToLoader ==
    [][\A p \in Procs :
          /\ CachedRead(p, MOVIES_CACHE_KEY, ListGet(p), ListGetThrows(p),
                        ListSet(p), ListSetThrows(p), "ml_find")
          /\ CachedRead(p, movieDetailKey(req[p].movie), DetailGet(p), DetailGetThrows(p),
                        DetailSet(p), DetailSetThrows(p), "md_find")
          /\ CachedRead(p, getShowsCacheKey(req[p].movie, req[p].status),
                        ShowsGet(p), ShowsGetThrows(p),
                        ShowsSet(p), ShowsSetThrows(p), "sl_find")
          /\ ListFind(p) => req'[p].acc \in ActiveMovies(movies)
          /\ ShowsFind(p) => req'[p].acc \in ActiveShows(shows, req[p].movie, req[p].status)
          /\ (/\ req'[p].op \in {"movies", "movie", "shows"}
              /\ req'[p].pc = "done")
             => req'[p].resp.code \in {200, 404}]_vars

\* the latest request, a movie list whose cache write failed, is answered with the
\* loaded list although the store holds no key of the list
C22_Witness ==
    \E p \in Procs :
       /\ req[p].op = "movies"
       /\ req[p].n = nreq
       /\ req[p].pc = "done"
       /\ req[p].status = "cacheWriteFailed"
       /\ req[p].resp = [code |-> 200, msg |-> "fromStore"]
       /\ req[p].acc = ResJson(<<MovieDocument(movies, "m1")>>)
       /\ MOVIES_CACHE_KEY \notin DOMAIN store

\* C23: with the network store unreachable, also after the proxy had switched to
\* it, the key-store commands are served by the in-memory client: no lock-seats
\* request and no movie list request is answered 500.
C23_UnreachableStoreFallsBack ==
    [][\A p \in Procs :
          (/\ req[p].pc # "done"
           /\ req'[p].pc = "done"
           /\ req'[p].op \in {"lock", "movies"})
          => req'[p].resp.code # 500]_vars

\* a live lock that only the Map of the in-memory client holds
ParkedLock(k) ==
    /\ backend.client = "redis"
    /\ k \in DOMAIN backend.parked
    /\ Live(backend.parked, k)
    /\ k \notin DOMAIN store

\* C30: the swap to the network store carries no lock over: the seat locks of the
\* in-memory client are not in the store after the swap, and from then on a lock
\* check does not report a seat whose live lock is only in the in-memory client as
\* a conflict, and the seat map does not report it as locked.
C30_FallbackLocksNotMigrated ==
    [][/\ (backend.client = "memory" /\ backend'.client = "redis")
          => \A k \in DOMAIN store :
                StartsWith(k, <<"seatlock", "">>)
                => k \notin DOMAIN store' /\ k \in DOMAIN backend'.parked
       /\ \A p \in Procs :
             /\ (/\ req[p].pc = "l_get"
                 /\ req'[p] # req[p]
                 /\ Serving
                 /\ ParkedLock(getSeatKey(req[p].show, req[p].seats[req[p].i])))
                => req'[p].acc = req[p].acc
             /\ (/\ req[p].pc \in {"m_keys", "m_get"}
                 /\ req'[p].pc = "done"
                 /\ req'[p].resp.code = 200)
                => \A k \in DOMAIN backend.parked :
                      (StartsWith(k, seatLockPattern(req[p].show)) /\ ParkedLock(k))
                      => SeatOfKey(k) \notin req'[p].locked]_vars

\* u1 has locked seat A-1 of show s1 under the in-memory client; after the swap,
\* with that lock not run out, u1's seat map of s1 shows no locked seat
C30_Witness ==
    /\ req[1].op = "seats"
    /\ req[1].pc = "done"
    /\ req[1].resp.code = 200
    /\ req[1].locked = {}
    /\ ParkedLock(getSeatKey("s1", SeatA1))
    /\ backend.parked[getSeatKey("s1", SeatA1)].value.userId = UserOf(1)

\* C31: in every reachable state, whatever the order and interleaving of
\* cancelBooking and settlePayment requests, no booking is CANCELLED and has
\* paymentStatus SUCCESS.
C31_NoCancelledBookingIsPaid ==
    \A id \in 1..Len(bookings) :
       ~(/\ bookings[id].bookingStatus = "CANCELLED"
         /\ bookings[id].paymentStatus = "SUCCESS")

\* C32: for every booking at most one payment record with status SUCCESS ever
\* exists, also when several settlePayment requests of the booking run at once.
C32_AtMostOneSuccessfulPayment ==
    \A id \in 1..Len(bookings) :
       Cardinality({n \in 1..Len(payments) :
                       /\ payments[n].bookingId = id
                       /\ payments[n].paymentStatus = "SUCCESS"}) <= 1

\* u2 was granted the lock of seat A-2 of show s1 at SeedTime, the lock has not run
\* out, and u2 has not used it for a booking of its own
U2HoldsGrantedLock ==
    /\ bookings[1].seats = <<SeatA1>>
    /\ now < SeedTime + SEAT_LOCK_TTL_SECONDS
    /\ \A id \in 1..Len(bookings) : bookings[id].userId # "u2"

\* C33: a granted lock is honoured until it runs out: the createBooking of the user
\* who was granted the locks of its seats, made before their TTL has passed, is not
\* rejected for missing or foreign locks, whatever the requests of other users in
\* between.
C33_GrantedLockIsHonoured ==
    [][\A p \in Procs :
          (/\ req[p].pc = "b_get"
           /\ req[p].user = "u2"
           /\ req[p].show = "s1"
           /\ req[p].seats = <<SeatA2>>
           /\ U2HoldsGrantedLock
           /\ req'[p].pc = "done")
          => req'[p].resp # [code |-> 409, msg |-> "notLocked"]]_vars

\* C34: at the step that inserts a booking, the store holds a live lock of the
\* requesting user on every seat of the booking: no booking is inserted for a seat
\* whose lock ran out, was removed or passed to another user after the lock check.
C34_InsertUnderHeldLocks ==
    [][\A p \in Procs :
          (/\ req[p].pc = "b_insert"
           /\ Len(bookings') = Len(bookings) + 1)
          => \A n \in 1..Len(req[p].seats) :
                LET raw == Get(store, getSeatKey(req[p].show, req[p].seats[n]))
                IN raw # Null /\ raw.userId = req[p].user]_vars

\* C35: every rate-limit counter in the store has an expiry pending as soon as the
\* request that created it has finished, also when that request failed between its
\* increment and its expiry-set step: a counter without expiry belongs to a request
\* that is still about to set it.
C35_CountersHaveExpiry ==
    \A k \in RateKeys(store) :
       store[k].expiresAt = NoExpiry
       => \E p \in Procs : /\ req[p].pc \in {"l_expire", "b_expire"}
                           /\ RateKeyOf(req[p]) = k

\* C36: whatever the interleaving of a movie list read (miss, load, write-back) with
\* a movie mutation (database update, then invalidation), once no request is in
\* flight any more the cache holds no list loaded before the mutation: a cached
\* list is a list the database would return now, so a read that starts then does
\* not answer older data.
C36_CacheIsCurrentAtRest ==
    (NoneInFlight /\ Get(store, MOVIES_CACHE_KEY) # Null)
    => JSONParse(Get(store, MOVIES_CACHE_KEY)) \in {ResJson(list) : list \in ActiveMovies(movies)}

\* C37: every seat identifier locked or booked for a show is a seat of the seat map
\* of that show: no lock key and no booking names a seat the show does not have.
C37_LockedAndBookedSeatsExist ==
    /\ \A k \in DOMAIN store :
          k[1] = "seatlock" => SeatOfKey(k) \in SeatsOfShow(shows[k[2]])
    /\ \A id \in 1..Len(bookings) :
          \A n \in 1..Len(bookings[id].seats) :
             bookings[id].seats[n] \in SeatsOfShow(shows[bookings[id].showId])

\* the bookings of the show that have one of the seats
Overlapping(showId, seats) ==
    {id \in 1..Len(bookings) : /\ bookings[id].showId = showId
                               /\ Range(bookings[id].seats) \cap Range(seats) # {}}

\* C38: the seats of a CANCELLED booking (cancelled by cancelBooking or by a FAILED
\* settlement) are available again: a createBooking that has passed its lock check
\* and whose seats are only in CANCELLED bookings of the show is inserted, never
\* rejected by the unique index.
C38_CancelledSeatsAreFree ==
    [][\A p \in Procs :
          (/\ req[p].pc = "b_insert"
           /\ req'[p] # req[p]
           /\ Overlapping(req[p].show, req[p].seats) # {}
           /\ \A id \in Overlapping(req[p].show, req[p].seats) :
                 bookings[id].bookingStatus = "CANCELLED")
          => /\ req'[p].pc = "b_del"
             /\ bookings' = Append(bookings, NewBooking(req[p]))]_vars

\* u2 holds a CONFIRMED booking of seat A-2 of show s1, a seat of u1's booking 1,
\* which is CANCELLED
C38_Witness ==
    /\ bookings[1].bookingStatus = "CANCELLED"
    /\ SeatA2 \in Range(bookings[1].seats)
    /\ \E id \in 2..Len(bookings) :
          /\ bookings[id].userId = "u2"
          /\ bookings[id].showId = "s1"
          /\ bookings[id].bookingStatus = "CONFIRMED"
          /\ SeatA2 \in Range(bookings[id].seats)

\* the request is a cancelBooking or settlePayment of a booking of another user
ByNonOwner(r) ==
    /\ r.op \in {"cancel", "pay"}
    /\ r.bid \in 1..Len(bookings)
    /\ bookings[r.bid].userId # r.user

\* C39: a cancelBooking or settlePayment of a user who does not own the booking is
\* rejected at its first step (404 for the cancel, 403 for the settlement) and has
\* changed nothing: the bookings, the payment records and the key store are as
\* they were and no event is published.
C39_NonOwnerChangesNothing ==
    [][\A p \in Procs :
          (/\ req[p].pc \in {"c_find", "p_find"}
           /\ ByNonOwner(req[p])
           /\ req'[p] # req[p])
          => /\ req'[p].pc = "done"
             /\ req'[p].resp.code = IF req[p].op = "cancel" THEN 404 ELSE 403
             /\ bookings' = bookings
             /\ payments' = payments
             /\ store' = store
             /\ emitted' = NoEvent]_vars

\* the settlement that a user sent for another user's PENDING booking has been
\* answered 403
C39_Witness ==
    \E p \in Procs :
       /\ req[p].op = "pay"
       /\ req[p].pc = "done"
       /\ req[p].resp.code = 403
       /\ ByNonOwner(req[p])
       /\ bookings[req[p].bid].paymentStatus = "PENDING"
       /\ payments = << >>
====
